---- MODULE Spec2Model ----
(***************************************************************************)
(* Model of the umbra-gateway x402 payment gate:                           *)
(*   - the in-memory credit counter store (InMemoryTokenStore),             *)
(*   - the token manager (IssueToken / ValidateToken / UseRequest),         *)
(*   - the payment middleware (ServeHTTP, serveWithToken, handlePayment).   *)
(* Handlers run in parallel; every access to shared state (the store's     *)
(* map, an entry's atomic counter, the replay set) is one atomic step, and *)
(* the code between two such accesses belongs to the step before it.       *)
(***************************************************************************)
EXTENDS Integers, FiniteSets, Sequences, TLC

\* ------------------------------------------------------------------ bounds
\* Largest allowance of the matched scenario (register N, then N+1 calls).
MaxAllowance == 3
\* Largest allowance / claimed total a direct caller of the store passes.
MaxTotal == 2
\* Number of distinct TokenIDs direct callers of the store use.
MaxTokens == 2
\* Parallel direct callers of the store that pass arbitrary arguments.
MaxCallers == 2
\* Payment runs: handlers in parallel, distinct payment payload byte
\* strings clients post, credit-tokens issued in one run.
MaxHandlers == 2
MaxPayloads == 2
MaxIssued == 2
\* Runs of the whole gate (tokens and payments): handlers in parallel.
MaxGateHandlers == 2
\* cfg.RequestsPerPayment: credits per issued token.
RequestsPerPayment == 2

\* Parallel callers of the matched scenario: one more than the largest
\* allowance, so that M > N calls meet every allowance N.
NumUsers == MaxAllowance + 1

Callers == 1..MaxCallers
Users == 1..NumUsers
TokenIDs == 1..MaxTokens
Totals == 1..MaxTotal
Allowances == 1..MaxAllowance
\* The matched scenario is about one TokenID T.
ScenarioTokens == {1}
Handlers == 1..MaxHandlers
GateHandlers == 1..MaxGateHandlers
\* Decoded Payment-Signature byte strings, named 1..MaxPayloads.
Payloads == 1..MaxPayloads
\* The runs of the whole gate post one payload, so issue one token.
GatePayloads == {1}
\* The signed transfer authorization (from, nonce, signature) inside a
\* payload: payloads 2k-1 and 2k carry the same authorization in different
\* bytes (JSON whitespace, the resource section, x402Version).
AuthOf(b) == (b + 1) \div 2
Auths == {AuthOf(b) : b \in Payloads}
\* authorization.from, the payer Verify reports: named by the authorization.
PayerOf(a) == a
\* sha256.Sum256(payloadBytes): collision-free, so the fingerprint of a
\* byte string is named by the byte string.
Fingerprint(b) == b
\* TokenID of a token signed by an earlier run of the gateway (same MAC
\* key): it validates, and the restarted store has no entry for it.
StaleTid == 0

VARIABLES
    entries,   \* InMemoryTokenStore.entries: TokenID -> [counter, total]
    pc,        \* position of each running call / handler
    claims,    \* the (tid, total) pair a Use call was made with
    used,      \* the local `used` of UseRequest, the value Add(1) returned
    ures,      \* what UseRequest returned to a direct caller: [err, remaining]
    facilitator,   \* cfg.Facilitator: "nil" (pass-through) or "set"
    seenPayments,  \* Middleware.seenPayments
    req,       \* the request a handler serves: [method, path, auth, pay]
    payer,     \* result.Payer of the handler's Verify call
    calls,     \* the collaborators the handler has called so far, in order
    tokens,    \* the token strings issued and returned to clients
    settled,   \* per payload, what the Settle calls made for it returned
    rejected,  \* the payloads for which a Verify call returned an error
    validated, \* the last ValidateToken call of a direct user of the token
               \* manager: the string, the time, and what it returned
    out,       \* the exchange completed by the last step: request, response,
               \* calls made, error of UseRequest; NoOut once it is read
    verified,  \* the LocalFacilitator.Verify call under study: its payload
               \* bytes, the clock, and what it returned
    settlement, \* the LocalFacilitator.Settle call under study: where it
               \* stands, its connection, the RPC calls made, its transaction,
               \* its error, and what handlePayment did with it
    startup,   \* the start of the gateway process: its environment, the
               \* Config loaded from it, what main built and how it ended
    remote,    \* the RemoteFacilitator call under study: the operation, the
               \* body posted, the outcome of the HTTP call, what it returned
    proxied,   \* the exchange of the proxy adapter under study: the inbound
               \* request, the request sent upstream, the response
    queues,    \* client: the Map of gateway URL -> QueuedItem[] (task names)
    draining,  \* client: the Set of gateway URLs being drained
    awaiting,  \* client: the drainQueue activations suspended at their await,
               \* each with its gateway URL and the item whose task it awaits
    tasks,     \* client: per task its gateway URL, how far it has run, and
               \* the state of the promise enqueue returned for it
    enqueuedOrder, \* client: per gateway URL, the tasks in the order enqueued
    startedOrder   \* client: per gateway URL, the tasks in the order started

\* The state of the components around the gate.
clientVars == <<queues, draining, awaiting, tasks, enqueuedOrder, startedOrder>>
periphery == <<startup, verified, settlement, remote, proxied, clientVars>>

\* The state of the gate and of the token manager.
gateVars == <<entries, pc, claims, used, ures, facilitator, seenPayments, req,
              payer, calls, tokens, settled, rejected, validated, out>>

vars == <<entries, pc, claims, used, ures,
          facilitator, periphery, seenPayments, req, payer, calls, tokens, settled,
          rejected, validated, out>>

NoClaims == [tid |-> 0, total |-> 0]
NoResult == [err |-> "none", remaining |-> 0]
NoValidation == [called |-> FALSE]
NoVerify == [called |-> FALSE]
\* The components around the gate are not exercised.
NoProxy == [stage |-> "none"]
\* The client module is loaded and no request was made.
ClientIdle ==
    /\ queues = <<>>
    /\ draining = {}
    /\ awaiting = {}
    /\ tasks = <<>>
    /\ enqueuedOrder = <<>>
    /\ startedOrder = <<>>
\* The gateway process as the components are studied: started, serving.
NoStartup == [pc |-> "serving"]
\* No call of the remote facilitator yet.
NoRemote == [pc |-> "idle"]
\* No Settle call of the local facilitator yet.
NoSettlement == [pc |-> "idle"]
PeripheryIdle ==
    /\ startup = NoStartup
    /\ verified = NoVerify /\ settlement = NoSettlement /\ remote = NoRemote
    /\ proxied = NoProxy /\ ClientIdle

\* --------------------------------------------------------- token manager

\* An Authorization header: absent (or not "Bearer "), a bearer string that
\* ValidateToken rejects (malformed, bad MAC, expired, other algorithm), or a
\* bearer string it accepts, with the claims it yields.
NoAuth == [kind |-> "none", tid |-> 0, total |-> 0]
InvalidAuth == [kind |-> "invalid", tid |-> 0, total |-> 0]
StaleAuth == [kind |-> "valid", tid |-> StaleTid, total |-> RequestsPerPayment]
TokenAuth(t) == [kind |-> "valid", tid |-> t.tid, total |-> t.total]
AuthValues == {NoAuth, InvalidAuth, StaleAuth} \cup {TokenAuth(t) : t \in tokens}

\* strings.HasPrefix(authHeader, "Bearer ")
HasBearer(auth) == auth.kind # "none"
\* Every Bearer string is taken as valid.
AcceptsAnyBearer(auth) == TRUE

\* ValidateToken returns claims and a nil error.
ValidateToken(auth) == auth.kind = "valid"
ClaimsOf(auth) == [tid |-> auth.tid, total |-> auth.total]

\* A Payment-Signature header: absent, not base64, or base64 of a payload.
NoPay == [kind |-> "none", bytes |-> 0]
MalformedPay == [kind |-> "malformed", bytes |-> 0]
PayloadPay(b) == [kind |-> "payload", bytes |-> b]
PayValues(payloads) == {NoPay, MalformedPay} \cup {PayloadPay(b) : b \in payloads}

\* r.Method and r.URL.Path
Methods == {"POST", "GET"}
Paths == {"/", "/health"}

Requests(payloads) ==
    [method : Methods, path : Paths, auth : AuthValues, pay : PayValues(payloads)]

\* The method check skipped in pass-through mode.
SupportedOrUngated(r) == (r.method = "POST" /\ r.path = "/") \/ facilitator = "nil"



\* The negation of r.Method != http.MethodPost || r.URL.Path != "/"
Supported(r) == r.method = "POST" /\ r.path = "/"
\* POST / requests without an Authorization header.
PayRequests == {r \in Requests(Payloads) : Supported(r) /\ ~HasBearer(r.auth)}
NoRequest == [method |-> "", path |-> "", auth |-> NoAuth, pay |-> NoPay]

\* --------------------------------------------------------- advertisement
\* Go struct values are records under their Go field names; a JSON document
\* is a record under its keys; json.Marshal and json.Unmarshal go from one
\* to the other by the struct tags.

\* Config.MaxAmountRequired (default of MAX_AMOUNT_REQUIRED).
MaxAmountRequired == 10000

\* NewMiddleware: req := paymentRequirementsV2{...}
Requirement ==
    [Scheme |-> "exact", Network |-> "eip155:84532",
     Amount |-> ToString(MaxAmountRequired),
     Asset |-> "0x036CbD53842c5426634E7929541eC2318f3dCF7e",
     PayTo |-> "GATEWAY_PAY_TO", MaxTimeoutSeconds |-> 60,
     Extra |-> [Name |-> "USDC", Version |-> "2"]]

\* NewMiddleware: payloadRequired := paymentRequiredV2{...}
PayloadRequired ==
    [X402Version |-> 2, Error |-> "Payment required",
     Resource |-> [URL |-> "http://localhost:8080",
                   Description |-> "RPC access: " \o ToString(RequestsPerPayment)
                                       \o " credits per payment",
                   MimeType |-> ""],
     Accepts |-> <<Requirement>>]

\* json.Marshal of a paymentRequirementsV2 (with its paymentRequirementsExtra).
MarshalRequirements(q) ==
    [scheme |-> q.Scheme, network |-> q.Network, amount |-> q.Amount,
     asset |-> q.Asset, payTo |-> q.PayTo,
     maxTimeoutSeconds |-> q.MaxTimeoutSeconds,
     extra |-> [name |-> q.Extra.Name, version |-> q.Extra.Version]]

\* json.Marshal of a paymentRequiredV2 (with its paymentResourceV2).
MarshalPaymentRequired(p) ==
    [x402Version |-> p.X402Version, error |-> p.Error,
     resource |-> [url |-> p.Resource.URL, description |-> p.Resource.Description,
                   mimeType |-> p.Resource.MimeType],
     accepts |-> [i \in DOMAIN p.Accepts |-> MarshalRequirements(p.Accepts[i])]]

\* Middleware.requirementsJSON and Middleware.payloadJSON
requirementsJSON == MarshalRequirements(Requirement)
payloadJSON == MarshalPaymentRequired(PayloadRequired)

\* base64.StdEncoding: EncodeToString, and the decoding a client does.
Base64Encode(bytes) == [base64 |-> bytes]
Base64Decode(str) == str.base64

\* Middleware.payload402
payload402 == Base64Encode(payloadJSON)

\* json.Unmarshal of a requirements document into paymentRequirementsV2.
UnmarshalRequirements(d) ==
    [Scheme |-> d.scheme, Network |-> d.network, Amount |-> d.amount,
     Asset |-> d.asset, PayTo |-> d.payTo,
     MaxTimeoutSeconds |-> d.maxTimeoutSeconds,
     Extra |-> [Name |-> d.extra.name, Version |-> d.extra.version]]

\* The body struct is filled without its Accepts.
UnmarshalBodyNoAccepts(d) ==
    [X402Version |-> d.x402Version, Error |-> d.error,
     Resource |-> [URL |-> d.resource.url, Description |-> d.resource.description,
                   MimeType |-> d.resource.mimeType],
     Accepts |-> <<>>,
     Reason |-> ""]

\* send402WithReason: json.Unmarshal(m.payloadJSON, &body)
UnmarshalBody(d) ==
    [X402Version |-> d.x402Version, Error |-> d.error,
     Resource |-> [URL |-> d.resource.url, Description |-> d.resource.description,
                   MimeType |-> d.resource.mimeType],
     Accepts |-> [i \in DOMAIN d.accepts |-> UnmarshalRequirements(d.accepts[i])],
     Reason |-> ""]

\* send402WithReason: json.NewEncoder(w).Encode(body); reason is omitempty.
EncodeBody(b) ==
    IF b.Reason = ""
        THEN MarshalPaymentRequired(b)
        ELSE [reason |-> b.Reason] @@ MarshalPaymentRequired(b)

\* ------------------------------------------------------------- responses
\* A body written as plain text, and a header that is not set.
TextBody(msg) == [text |-> msg]
NoHeader == [absent |-> TRUE]

\* status 0 with next = TRUE: the response is the one cfg.Next writes.
\* payreq is the Payment-Required header.
NoResp == [status |-> 0, body |-> TextBody(""), payreq |-> NoHeader,
           token |-> 0, credits |-> -1, next |-> FALSE]

\* http.Error(w, msg, status)
HttpError(status, msg) == [NoResp EXCEPT !.status = status, !.body = TextBody(msg)]

\* send402WithReason: the Payment-Required header, then the advertisement
\* with body.Reason = reason as the JSON body.
Send402WithReason(reason) ==
    [NoResp EXCEPT !.status = 402, !.payreq = payload402,
                   !.body = EncodeBody([UnmarshalBody(payloadJSON)
                                           EXCEPT !.Reason = reason])]

\* send402
Send402 == Send402WithReason("")

\* The header shows the credits before this request.
ForwardedOneMore(remaining) ==
    [NoResp EXCEPT !.credits = remaining + 1, !.next = TRUE]

\* X-Rpc-Credits-Remaining set, then cfg.Next.ServeHTTP.
Forwarded(remaining) == [NoResp EXCEPT !.credits = remaining, !.next = TRUE]

\* cfg.Next.ServeHTTP without any header of the middleware.
PassedThrough == [NoResp EXCEPT !.next = TRUE]

\* The request is handed to cfg.Next after the acknowledgment.
PaymentAcceptedThenForwarded(tid) ==
    [NoResp EXCEPT !.status = 200, !.token = tid, !.next = TRUE,
                   !.body = [message |-> "payment accepted", credits |-> RequestsPerPayment,
                             hint |-> "set Authorization: Bearer <token>"]]

\* 200 with X-Payment-Token and the acknowledgment body.
PaymentAccepted(tid) ==
    [NoResp EXCEPT !.status = 200, !.token = tid,
                   !.body = [message |-> "payment accepted", credits |-> RequestsPerPayment,
                             hint |-> "set Authorization: Bearer <token>"]]

NoOut == [req |-> NoRequest, resp |-> NoResp, calls |-> <<>>, use |-> "none"]

\* ------------------------------------------------- handler bookkeeping

\* The handler returns: the response is complete and the goroutine ends.
Complete(h, r, rsp, cs, useErr) ==
    /\ pc' = [pc EXCEPT ![h] = "idle"]
    /\ req' = [req EXCEPT ![h] = NoRequest]
    /\ calls' = [calls EXCEPT ![h] = <<>>]
    /\ claims' = [claims EXCEPT ![h] = NoClaims]
    /\ used' = [used EXCEPT ![h] = 0]
    /\ payer' = [payer EXCEPT ![h] = 0]
    /\ out' = [req |-> r, resp |-> rsp, calls |-> cs, use |-> useErr]

\* result.Payer is not kept for the later steps.
ContinueWithoutPayer(h, r, label, cs, cl, py) ==
    /\ pc' = [pc EXCEPT ![h] = label]
    /\ req' = [req EXCEPT ![h] = r]
    /\ calls' = [calls EXCEPT ![h] = cs]
    /\ claims' = [claims EXCEPT ![h] = cl]
    /\ used' = used
    /\ payer' = [payer EXCEPT ![h] = 0]
    /\ out' = out

\* The handler goes on to its next access to shared state.
Continue(h, r, label, cs, cl, py) ==
    /\ pc' = [pc EXCEPT ![h] = label]
    /\ req' = [req EXCEPT ![h] = r]
    /\ calls' = [calls EXCEPT ![h] = cs]
    /\ claims' = [claims EXCEPT ![h] = cl]
    /\ used' = used
    /\ payer' = [payer EXCEPT ![h] = py]
    /\ out' = out

PayLabels == {"replay", "verify", "verify_failed", "settle", "issue"}

\* Tokens issued plus payments in flight stay within n (bounds the run).
Bounded(n) ==
    Cardinality(tokens) + Cardinality({g \in DOMAIN req : pc[g] \in PayLabels}) <= n

\* Whatever the header holds is taken as payload bytes (no decoding error).
PaymentPathUndecoded(h, r, cs) ==
    IF r.pay.kind = "none"
        THEN Complete(h, r, Send402, cs, "none")
        ELSE Continue(h, r, "replay", cs, NoClaims, 0)

\* ServeHTTP, Path 2 and Path 3: the Payment-Signature header, the base64
\* decoding at the head of handlePayment, or the plain 402.
PaymentPath(h, r, cs) ==
    IF r.pay.kind = "none"
        THEN Complete(h, r, Send402, cs, "none")
        ELSE IF r.pay.kind = "malformed"
            THEN Complete(h, r, HttpError(400, "invalid Payment-Signature encoding"),
                          cs, "none")
            ELSE Continue(h, r, "replay", cs, NoClaims, 0)

\* ErrTokenNotFound falls through to the payment path.
FallThroughOnNotFound(h, res) ==
    IF res.err = "nil"
        THEN Complete(h, req[h], Forwarded(res.remaining),
                      calls[h] \o <<"ReadBody", "Next">>, res.err)
        ELSE IF res.err = "ErrTokenExhausted"
        THEN Complete(h, req[h], Send402, calls[h], res.err)
        ELSE IF res.err = "ErrTokenNotFound"
        THEN PaymentPath(h, req[h], calls[h])
        ELSE Complete(h, req[h], HttpError(500, "internal error"), calls[h], res.err)

\* ErrTokenExhausted falls through to the payment path.
FallThroughOnExhausted(h, res) ==
    IF res.err = "nil"
        THEN Complete(h, req[h], Forwarded(res.remaining),
                      calls[h] \o <<"ReadBody", "Next">>, res.err)
        ELSE IF res.err = "ErrTokenExhausted"
        THEN PaymentPath(h, req[h], calls[h])
        ELSE IF res.err = "ErrTokenNotFound"
        THEN Complete(h, req[h], Send402WithReason("token_not_found"), calls[h], res.err)
        ELSE Complete(h, req[h], HttpError(500, "internal error"), calls[h], res.err)

\* serveWithToken after Tokens.UseRequest returned: the error switch, or the
\* reading of the request body (for the log line), the credits header and
\* the hand-off to cfg.Next. Always `return true`.
ServeWithTokenResult(h, res) ==
    IF res.err = "nil"
        THEN Complete(h, req[h], Forwarded(res.remaining),
                      calls[h] \o <<"ReadBody", "Next">>, res.err)
        ELSE IF res.err = "ErrTokenExhausted"
        THEN Complete(h, req[h], Send402, calls[h], res.err)
        ELSE IF res.err = "ErrTokenNotFound"
        THEN Complete(h, req[h], Send402WithReason("token_not_found"), calls[h], res.err)
        ELSE Complete(h, req[h], HttpError(500, "internal error"), calls[h], res.err)

\* ------------------------------------------------------- the counter store

\* The store records nothing.
RegisterNothing(tokenID, total) == entries

\* RegisterToken: under the mutex, create the entry unless it exists.
RegisterToken(tokenID, total) ==
    IF tokenID \in DOMAIN entries
        THEN entries
        ELSE entries @@ (tokenID :> [counter |-> 0, total |-> total])

\* atomic.Int64.Add on the entry's counter.
CounterAdd(tokenID, delta) ==
    [entries EXCEPT ![tokenID].counter = @ + delta]

\* UseRequest returns res, its local `used` being u: to serveWithToken when a
\* request handler made the call, else to the direct caller.
UseReturn(p, res, u) ==
    IF p \in DOMAIN req
        THEN /\ ServeWithTokenResult(p, res)
             /\ ures' = ures
        ELSE /\ pc' = [pc EXCEPT ![p] = "use_ret"]
             /\ ures' = [ures EXCEPT ![p] = res]
             /\ used' = [used EXCEPT ![p] = u]
             /\ UNCHANGED <<claims, req, calls, payer, out>>

\* UseRequest, first step: the map lookup under the mutex.
UseLookup(p) ==
    /\ pc[p] = "use_lookup"
    /\ IF claims[p].tid \in DOMAIN entries
          THEN /\ pc' = [pc EXCEPT ![p] = "use_add"]
               /\ UNCHANGED <<claims, used, ures, req, calls, payer, out>>
          ELSE UseReturn(p, [err |-> "ErrTokenNotFound", remaining |-> 0], used[p])
    /\ UNCHANGED <<entries, facilitator, periphery, validated, seenPayments, tokens, settled, rejected>>

\* Off-by-one comparison (used >= total).
OvershootAtTotal(u, total) == u >= total

\* The comparison of UseRequest: the value Add(1) returned against the
\* `total` parameter of the call.
Overshoot(u, total) == u > total

\* UseRequest, second step: used := e.counter.Add(1). When the value is
\* within `total` the call returns total - used without touching shared
\* state again; otherwise it goes on to the compensating decrement.
UseAdd(p) ==
    /\ pc[p] = "use_add"
    /\ LET u == entries[claims[p].tid].counter + 1 IN
       /\ entries' = CounterAdd(claims[p].tid, 1)
       /\ IF Overshoot(u, claims[p].total)
             THEN /\ pc' = [pc EXCEPT ![p] = "use_rollback"]
                  /\ used' = [used EXCEPT ![p] = u]
                  /\ UNCHANGED <<claims, ures, req, calls, payer, out>>
             ELSE UseReturn(p, [err |-> "nil", remaining |-> claims[p].total - u], u)
    /\ UNCHANGED <<facilitator, periphery, validated, seenPayments, tokens, settled, rejected>>

\* UseRequest, third step (overshoot only): e.counter.Add(-1), then
\* return ErrTokenExhausted.
UseRollback(p) ==
    /\ pc[p] = "use_rollback"
    /\ entries' = CounterAdd(claims[p].tid, -1)
    /\ UseReturn(p, [err |-> "ErrTokenExhausted", remaining |-> 0], used[p])
    /\ UNCHANGED <<facilitator, periphery, validated, seenPayments, tokens, settled, rejected>>

\* ------------------------------------------- store-level specification
\* Direct users of the TokenCounterStore interface: any caller may register
\* any TokenID and call UseRequest with any (tokenID, total).

StoreRegister(tokenID, total) ==
    /\ entries' = RegisterToken(tokenID, total)
    /\ entries' # entries
    /\ UNCHANGED <<pc, claims, used, ures>>
    /\ UNCHANGED <<facilitator, periphery, validated, seenPayments, req, payer, calls, tokens, settled,
                   rejected, out>>

\* Calls are numbered in the order they are made.
StoreCallUse(p, tokenID, total) ==
    /\ pc[p] = "idle"
    /\ \A q \in DOMAIN pc : q < p => pc[q] # "idle"
    /\ pc' = [pc EXCEPT ![p] = "use_lookup"]
    /\ claims' = [claims EXCEPT ![p] = [tid |-> tokenID, total |-> total]]
    /\ UNCHANGED <<entries, used, ures>>
    /\ UNCHANGED <<facilitator, periphery, validated, seenPayments, req, payer, calls, tokens, settled,
                   rejected, out>>

\* The store-level runs have no middleware.
NoMiddleware ==
    /\ facilitator = "nil"
    /\ seenPayments = {}
    /\ req = <<>>
    /\ payer = <<>>
    /\ calls = <<>>
    /\ tokens = {}
    /\ settled = <<>>
    /\ rejected = {}
    /\ validated = NoValidation
    /\ PeripheryIdle
    /\ out = NoOut

StoreInit ==
    /\ entries = <<>>
    /\ pc = [p \in Callers |-> "idle"]
    /\ claims = [p \in Callers |-> NoClaims]
    /\ used = [p \in Callers |-> 0]
    /\ ures = [p \in Callers |-> NoResult]
    /\ NoMiddleware

StoreNext ==
    \/ \E t \in TokenIDs, a \in Totals : StoreRegister(t, a)
    \/ \E p \in Callers, t \in TokenIDs, a \in Totals : StoreCallUse(p, t, a)
    \/ \E p \in Callers : UseLookup(p)
    \/ \E p \in Callers : UseAdd(p)
    \/ \E p \in Callers : UseRollback(p)

SpecStore == StoreInit /\ [][StoreNext]_vars

\* ------------------------------------------- matched-use specification
\* The calls the token manager makes: every UseRequest for a registered
\* TokenID carries the allowance it was registered with.

UseInit ==
    /\ entries = <<>>
    /\ pc = [p \in Users |-> "idle"]
    /\ claims = [p \in Users |-> NoClaims]
    /\ used = [p \in Users |-> 0]
    /\ ures = [p \in Users |-> NoResult]
    /\ NoMiddleware

UseNext ==
    \/ \E t \in ScenarioTokens, a \in Allowances : StoreRegister(t, a)
    \/ \E p \in Users, t \in DOMAIN entries : StoreCallUse(p, t, entries[t].total)
    \/ \E p \in Users : UseLookup(p)
    \/ \E p \in Users : UseAdd(p)
    \/ \E p \in Users : UseRollback(p)

SpecUse == UseInit /\ [][UseNext]_vars

\* ------------------------------------------- re-registration specification
\* One TokenID is registered, and callers then register it again and use
\* it, each with an allowance of their choice.

\* Parallel callers of the re-registration runs.
MaxRegCallers == 3
RegCallers == 1..MaxRegCallers

\* A caller's RegisterToken call (one step, under the mutex); the caller
\* keeps the arguments it passed.
StoreCallRegister(p, tokenID, total) ==
    /\ pc[p] = "idle"
    /\ \A q \in DOMAIN pc : q < p => pc[q] # "idle"
    /\ pc' = [pc EXCEPT ![p] = "reg_ret"]
    /\ claims' = [claims EXCEPT ![p] = [tid |-> tokenID, total |-> total]]
    /\ entries' = RegisterToken(tokenID, total)
    /\ UNCHANGED <<used, ures>>
    /\ UNCHANGED <<facilitator, periphery, validated, seenPayments, req, payer, calls, tokens, settled,
                   rejected, out>>

RegInit ==
    /\ entries = <<>>
    /\ pc = [p \in RegCallers |-> "idle"]
    /\ claims = [p \in RegCallers |-> NoClaims]
    /\ used = [p \in RegCallers |-> 0]
    /\ ures = [p \in RegCallers |-> NoResult]
    /\ NoMiddleware

RegNext ==
    \/ \E t \in ScenarioTokens, a \in Totals : StoreRegister(t, a)
    \/ \E p \in RegCallers, t \in DOMAIN entries, a \in Totals :
          StoreCallRegister(p, t, a)
    \/ \E p \in RegCallers, t \in DOMAIN entries, a \in Totals :
          StoreCallUse(p, t, a)
    \/ \E p \in RegCallers : UseLookup(p)
    \/ \E p \in RegCallers : UseAdd(p)
    \/ \E p \in RegCallers : UseRollback(p)

SpecRegister == RegInit /\ [][RegNext]_vars

\* ------------------------------------------------------------ middleware

\* The payment gate is on whatever the configuration.
AlwaysGated == FALSE

\* m.cfg.Facilitator == nil
PassThroughMode == facilitator = "nil"

\* ServeHTTP up to the first access to shared state: the method/path check,
\* pass-through mode, the Bearer header and ValidateToken, then Path 2/3.
ServeHTTP(h, r) ==
    /\ pc[h] = "idle"
    /\ \A g \in DOMAIN req : g < h => pc[g] # "idle"
    /\ IF ~Supported(r)
          THEN Complete(h, r, HttpError(400, "only POST / is supported"), <<>>, "none")
          ELSE IF PassThroughMode
          THEN Complete(h, r, PassedThrough, <<"Next">>, "none")
          ELSE IF HasBearer(r.auth)
          THEN IF ValidateToken(r.auth)
                  THEN Continue(h, r, "use_lookup", <<"ValidateToken", "UseRequest">>,
                                ClaimsOf(r.auth), 0)
                  ELSE PaymentPath(h, r, <<"ValidateToken">>)
          ELSE PaymentPath(h, r, <<>>)
    /\ UNCHANGED <<entries, ures, facilitator, periphery, validated, seenPayments, tokens, settled, rejected>>

\* A TokenCounterStore whose UseRequest fails with an error that is neither
\* ErrTokenExhausted nor ErrTokenNotFound (the interface allows it; the
\* in-memory store never does).
UseOtherError(h) ==
    /\ pc[h] = "use_lookup"
    /\ UseReturn(h, [err |-> "other", remaining |-> 0], used[h])
    /\ UNCHANGED <<entries, facilitator, periphery, validated, seenPayments, tokens, settled, rejected>>

\* The handler waits for seenMu and never gets it.
ReplayCheckBlocked(h) == pc[h] = "replay" /\ UNCHANGED vars

\* The lookup finds nothing (no replay suppression).
NeverSeen(fp) == FALSE

\* _, seen := m.seenPayments[fp]
AlreadySeen(fp) == fp \in seenPayments

\* handlePayment: the test-and-insert of the fingerprint under seenMu.
ReplayCheck(h) ==
    /\ pc[h] = "replay"
    /\ LET fp == Fingerprint(req[h].pay.bytes) IN
       IF AlreadySeen(fp)
          THEN /\ Complete(h, req[h], HttpError(409, "payment already processed"),
                           calls[h], "none")
               /\ seenPayments' = seenPayments
          ELSE /\ Continue(h, req[h], "verify", calls[h], claims[h], payer[h])
               /\ seenPayments' = seenPayments \cup {fp}
    /\ UNCHANGED <<entries, ures, facilitator, periphery, validated, tokens, settled, rejected>>

\* The replay set is left as it is (no delete on a Verify error).
SeenAfterVerifyKept(fp, ok) == seenPayments

\* The replay set after Verify returned: the fingerprint is deleted on an
\* error and kept otherwise.
SeenAfterVerify(fp, ok) == IF ok THEN seenPayments ELSE seenPayments \ {fp}

\* handlePayment: Facilitator.Verify returns. On an error the fingerprint is
\* deleted under seenMu; the 402 is written in the next step.
PayVerify(h, ok) ==
    /\ pc[h] = "verify"
    /\ LET b == req[h].pay.bytes IN
       IF ok
          THEN /\ Continue(h, req[h], "settle", Append(calls[h], "Verify"),
                           claims[h], PayerOf(AuthOf(b)))
               /\ rejected' = rejected
          ELSE /\ Continue(h, req[h], "verify_failed", Append(calls[h], "Verify"),
                           claims[h], payer[h])
               /\ rejected' = rejected \cup {b}
    /\ seenPayments' = SeenAfterVerify(Fingerprint(req[h].pay.bytes), ok)
    /\ UNCHANGED <<entries, ures, facilitator, periphery, validated, tokens, settled>>

\* handlePayment: the 402 after a Verify error.
PayVerifyFailed(h) ==
    /\ pc[h] = "verify_failed"
    /\ Complete(h, req[h], HttpError(402, "payment verification failed"),
                calls[h], "none")
    /\ UNCHANGED <<entries, ures, facilitator, periphery, validated, seenPayments, tokens, settled, rejected>>

\* What Facilitator.Settle returns: nil, or an error (a rejected or failed
\* submission, or the request context cancelled during the call).
SettleOutcomes == {"nil", "transaction_failed", "context canceled"}

\* The fingerprint is deleted on a Settle error as on a Verify error.
SeenAfterSettleRetracted(fp, err) ==
    IF err = "nil" THEN seenPayments ELSE seenPayments \ {fp}

\* The replay set after Settle returned: untouched, whatever it returned.
SeenAfterSettle(fp, err) == seenPayments

\* handlePayment: Facilitator.Settle returns. On an error the 402 carries
\* the error text and the fingerprint is left in the set.
PaySettle(h, err) ==
    /\ pc[h] = "settle"
    /\ settled' = [settled EXCEPT ![req[h].pay.bytes] = Append(@, err)]
    /\ seenPayments' = SeenAfterSettle(Fingerprint(req[h].pay.bytes), err)
    /\ IF err = "nil"
          THEN Continue(h, req[h], "issue", Append(calls[h], "Settle"),
                        claims[h], payer[h])
          ELSE Complete(h, req[h], HttpError(402, "payment settlement failed: " \o err),
                        Append(calls[h], "Settle"), "none")
    /\ UNCHANGED <<entries, ures, facilitator, periphery, validated, tokens, rejected>>

\* uuid.New(): a TokenID no entry has.
FreshTid == Cardinality(DOMAIN entries) + 1

\* handlePayment: Tokens.IssueToken (sign, then RegisterToken) returns, and
\* the 200 with X-Payment-Token or the 500 is written. A token remembers the
\* payload it was issued for.
PayIssue(h, ok) ==
    /\ pc[h] = "issue"
    /\ IF ok
          THEN /\ entries' = RegisterToken(FreshTid, RequestsPerPayment)
               /\ tokens' = tokens \cup
                      {[tid |-> FreshTid, total |-> RequestsPerPayment,
                        sub |-> payer[h], bytes |-> req[h].pay.bytes]}
               /\ Complete(h, req[h], PaymentAccepted(FreshTid),
                           Append(calls[h], "IssueToken"), "none")
          ELSE /\ UNCHANGED <<entries, tokens>>
               /\ Complete(h, req[h], HttpError(500, "internal error"),
                           Append(calls[h], "IssueToken"), "none")
    /\ UNCHANGED <<ures, facilitator, periphery, validated, seenPayments, settled, rejected>>

\* The client has read the response of the exchange just completed.
Drain ==
    /\ out # NoOut
    /\ out' = NoOut
    /\ UNCHANGED <<entries, pc, claims, used, ures, facilitator, periphery, validated, seenPayments,
                   req, payer, calls, tokens, settled, rejected>>

\* NewInMemoryTokenStore, NewTokenManager, NewMiddleware; the facilitator is
\* configured or not.
MiddlewareInit(handlers, payloads) ==
    /\ entries = <<>>
    /\ pc = [h \in handlers |-> "idle"]
    /\ claims = [h \in handlers |-> NoClaims]
    /\ used = [h \in handlers |-> 0]
    /\ ures = [h \in handlers |-> NoResult]
    /\ facilitator \in {"nil", "set"}
    /\ seenPayments = {}
    /\ req = [h \in handlers |-> NoRequest]
    /\ payer = [h \in handlers |-> 0]
    /\ calls = [h \in handlers |-> <<>>]
    /\ tokens = {}
    /\ settled = [b \in payloads |-> <<>>]
    /\ rejected = {}
    /\ validated = NoValidation
    /\ PeripheryIdle
    /\ out = NoOut

\* The steps of handlePayment after the decoding.
PaymentStep ==
    \/ \E h \in DOMAIN req : ReplayCheck(h)
    \/ \E h \in DOMAIN req, ok \in BOOLEAN : PayVerify(h, ok)
    \/ \E h \in DOMAIN req : PayVerifyFailed(h)
    \/ \E h \in DOMAIN req, err \in SettleOutcomes : PaySettle(h, err)
    \/ \E h \in DOMAIN req, ok \in BOOLEAN : PayIssue(h, ok)

\* The steps of Tokens.UseRequest inside serveWithToken.
TokenStep ==
    \/ \E h \in DOMAIN req : UseLookup(h)
    \/ \E h \in DOMAIN req : UseOtherError(h)
    \/ \E h \in DOMAIN req : UseAdd(h)
    \/ \E h \in DOMAIN req : UseRollback(h)

\* -------------------------------------------- payment-path specification
\* Requests without a Bearer token: the replay check and the
\* Verify / Settle / Issue sequence.

PayInit == MiddlewareInit(Handlers, Payloads)

PayNext ==
    \/ /\ out = NoOut
       /\ \/ \E h \in Handlers, r \in PayRequests :
                ServeHTTP(h, r) /\ Bounded(MaxIssued)'
          \/ PaymentStep
    \/ Drain

SpecPay == PayInit /\ [][PayNext]_vars

\* --------------------------------------------- whole-gate specification
\* Every kind of request: tokens are issued for payments and then used.

Init == MiddlewareInit(GateHandlers, GatePayloads)

\* The requests of the whole-gate runs: any request with the one payload,
\* and requests that carry another payload next to a token that validates.
GateRequests ==
    {r \in Requests(Payloads) :
        (r.pay.kind = "payload" /\ r.pay.bytes \notin GatePayloads)
            => (Supported(r) /\ ValidateToken(r.auth))}

Next ==
    \/ /\ out = NoOut
       /\ \/ \E h \in GateHandlers, r \in GateRequests :
                ServeHTTP(h, r)
          \/ TokenStep
          \/ PaymentStep
    \/ Drain

Spec == Init /\ [][Next]_vars


\* ------------------------------------------- whole gate under fair scheduling
\* One step of the handler h: whichever of the steps of UseRequest and of
\* handlePayment it stands at.
HandlerStep(h) ==
    /\ out = NoOut
    /\ \/ UseLookup(h) \/ UseOtherError(h) \/ UseAdd(h) \/ UseRollback(h)
       \/ ReplayCheck(h) \/ PayVerifyFailed(h)
       \/ \E ok \in BOOLEAN : PayVerify(h, ok)
       \/ \E err \in SettleOutcomes : PaySettle(h, err)
       \/ \E ok \in BOOLEAN : PayIssue(h, ok)

\* Every handler goroutine that can take its step again and again takes it:
\* the calls it waits for (Verify, Settle, the store, the body read) return,
\* the run time schedules every runnable goroutine, and sync.Mutex hands a
\* lock to every waiter (no critical section blocks or takes a second
\* lock). The response of a completed exchange is read.
GateFairness ==
    /\ \A h \in GateHandlers : SF_vars(HandlerStep(h))
    /\ WF_vars(Drain)

\* The requests of the fair runs are POST / requests with any credentials.
LiveNext ==
    \/ /\ out = NoOut
       /\ \/ \E h \in GateHandlers, r \in Requests(GatePayloads) :
                Supported(r) /\ ServeHTTP(h, r)
          \/ TokenStep
          \/ PaymentStep
    \/ Drain

SpecLive == Init /\ [][LiveNext]_vars /\ GateFairness

\* -------------------------------------------- token manager: signed tokens
\* A token string is its three segments: the header, the claims and the
\* signature; a signature is named by the method, the key and the signing
\* input (header and claims) it was made from.

\* Direct users of the token manager that consume credits in parallel.
MaxTokenCallers == 3
TokenCallers == 1..MaxTokenCallers
\* m.expiry, and the last instant of the clock.
TokenExpiry == 2
MaxTime == 3
Times == 0..MaxTime
IssueTimes == 0..(MaxTime - TokenExpiry)
Payers == {"0xA11CE", "0xB0B"}

\* The signing methods the jwt package has registered under a header alg,
\* and those of type *jwt.SigningMethodHMAC.
HMACAlgs == {"HS256", "HS384", "HS512"}
KnownAlgs == HMACAlgs \cup {"RS256", "none"}

\* m.secret, and a key that is not m.secret.
Secret == "m.secret"
OtherKey == "other"

\* method.Sign(signingString, key); the "none" method signs with nothing.
Sign(alg, key, header, body) ==
    IF alg = "none"
        THEN [alg |-> alg]
        ELSE [alg |-> alg, key |-> key, header |-> header, body |-> body]

\* jwt.NewWithClaims(method, claims).SignedString(key)
SignedString(alg, key, body) ==
    LET header == [alg |-> alg, typ |-> "JWT"] IN
    [header |-> header, claims |-> body, sig |-> Sign(alg, key, header, body)]

\* The claims carry no subject.
IssueClaimsNoSubject(payerAddress, requestsTotal, now, tokenID) ==
    [sub |-> "", iat |-> now, exp |-> now + TokenExpiry,
     tid |-> tokenID, requests_total |-> requestsTotal]

\* IssueToken: claims := &Claims{...}
IssueClaims(payerAddress, requestsTotal, now, tokenID) ==
    [sub |-> payerAddress, iat |-> now, exp |-> now + TokenExpiry,
     tid |-> tokenID, requests_total |-> requestsTotal]

\* IssueToken: the string it returns, for the instant and the UUID it drew.
IssueToken(payerAddress, requestsTotal, now, tokenID) ==
    SignedString("HS256", Secret, IssueClaims(payerAddress, requestsTotal, now, tokenID))

\* The key function of ValidateToken: the method must be an HMAC method.
KeyFuncAccepts(alg) == alg \in HMACAlgs

\* jwt.ParseWithClaims with that key function: the method named by the
\* header, the key function, the signature, then the expiry.
ParseWithClaims(s, now) ==
    IF s.header.alg \notin KnownAlgs THEN "signing method unavailable"
    ELSE IF ~KeyFuncAccepts(s.header.alg) THEN "unexpected signing method"
    ELSE IF s.sig # Sign(s.header.alg, Secret, s.header, s.claims)
        THEN "signature is invalid"
    ELSE IF ~(now < s.claims.exp) THEN "token is expired"
    ELSE "nil"

\* The token strings a user may present, given an issued string s: s, the
\* same claims signed by a holder of m.secret under each HMAC method, s with
\* another alg in its header, s with a larger requests_total, the claims
\* signed with another key, and the unsigned claims.
Presentable(s) ==
    {s}
    \cup {SignedString(a, Secret, s.claims) : a \in HMACAlgs}
    \cup {[s EXCEPT !.header.alg = a] : a \in KnownAlgs \cup {"XS256"}}
    \cup {[s EXCEPT !.claims.requests_total = @ + 1]}
    \cup {SignedString(a, OtherKey, s.claims) : a \in {"HS256", "RS256"}}
    \cup {SignedString("none", Secret, s.claims)}

\* A user calls IssueToken (one token is issued in a run).
ManagerIssue(payerAddress, requestsTotal, now) ==
    /\ tokens = {}
    /\ entries' = RegisterToken(FreshTid, requestsTotal)
    /\ tokens' = {[str |-> IssueToken(payerAddress, requestsTotal, now, FreshTid),
                   payer |-> payerAddress, allowance |-> requestsTotal]}
    /\ UNCHANGED <<pc, claims, used, ures, validated>>
    /\ UNCHANGED <<facilitator, periphery, seenPayments, req, payer, calls, settled, rejected, out>>

\* A user calls ValidateToken(s) at instant now and, when it returns claims,
\* goes on to TokenManager.UseRequest(claims).
ManagerCall(p, s, now) ==
    /\ pc[p] = "idle"
    /\ \A q \in DOMAIN pc : q < p => pc[q] # "idle"
    /\ LET err == ParseWithClaims(s, now) IN
       /\ validated' = [called |-> TRUE, token |-> s, at |-> now, err |-> err]
       /\ IF err = "nil"
             THEN /\ pc' = [pc EXCEPT ![p] = "use_lookup"]
                  /\ claims' = [claims EXCEPT
                                  ![p] = [tid |-> s.claims.tid,
                                          total |-> s.claims.requests_total]]
             ELSE UNCHANGED <<pc, claims>>
    /\ UNCHANGED <<entries, used, ures, tokens>>
    /\ UNCHANGED <<facilitator, periphery, seenPayments, req, payer, calls, settled, rejected, out>>

\* NewTokenManager(secret, expiry, NewInMemoryTokenStore())
TokenInit ==
    /\ entries = <<>>
    /\ pc = [p \in TokenCallers |-> "idle"]
    /\ claims = [p \in TokenCallers |-> NoClaims]
    /\ used = [p \in TokenCallers |-> 0]
    /\ ures = [p \in TokenCallers |-> NoResult]
    /\ NoMiddleware

TokenNext ==
    \/ \E who \in Payers, a \in Totals, now \in IssueTimes : ManagerIssue(who, a, now)
    \/ \E p \in TokenCallers, k \in tokens, now \in Times :
          \E s \in Presentable(k.str) : ManagerCall(p, s, now)
    \/ \E p \in TokenCallers : UseLookup(p)
    \/ \E p \in TokenCallers : UseAdd(p)
    \/ \E p \in TokenCallers : UseRollback(p)

SpecToken == TokenInit /\ [][TokenNext]_vars



\* ------------------------------------------------------ local facilitator

\* The gateway is configured with a facilitator and serves no request.
GateIdle ==
    /\ entries = <<>>
    /\ pc = <<>>
    /\ claims = <<>>
    /\ used = <<>>
    /\ ures = <<>>
    /\ facilitator = "set"
    /\ seenPayments = {}
    /\ req = <<>>
    /\ payer = <<>>
    /\ calls = <<>>
    /\ tokens = {}
    /\ settled = <<>>
    /\ rejected = {}
    /\ validated = NoValidation
    /\ out = NoOut

\* A string that the code takes apart (a network identifier, a decimal
\* number) is the sequence of its characters.

Digits == {"0", "1", "2", "3", "4", "5", "6", "7", "8", "9"}
DigitValue(c) ==
    CASE c = "0" -> 0 [] c = "1" -> 1 [] c = "2" -> 2 [] c = "3" -> 3
      [] c = "4" -> 4 [] c = "5" -> 5 [] c = "6" -> 6 [] c = "7" -> 7
      [] c = "8" -> 8 [] c = "9" -> 9

\* strings.Split(s, ":")
RECURSIVE Split(_)
Split(s) ==
    IF s = <<>>
        THEN << <<>> >>
        ELSE LET rest == Split(Tail(s)) IN
             IF Head(s) = ":"
                 THEN << <<>> >> \o rest
                 ELSE << <<Head(s)>> \o rest[1] >> \o Tail(rest)

\* The digits of a decimal string read as a number.
RECURSIVE DecimalValue(_)
DecimalValue(s) ==
    IF s = <<>> THEN 0
    ELSE DecimalValue(SubSeq(s, 1, Len(s) - 1)) * 10 + DigitValue(s[Len(s)])

\* The string without its sign.
Unsigned(s) == IF s # <<>> /\ Head(s) \in {"+", "-"} THEN Tail(s) ELSE s

\* new(big.Int).SetString(s, 10): the ok result, and the number. An optional
\* sign, then one or more decimal digits.
SetStringOk(s) ==
    /\ Unsigned(s) # <<>>
    /\ \A i \in DOMAIN Unsigned(s) : Unsigned(s)[i] \in Digits
SetString(s) ==
    IF s # <<>> /\ Head(s) = "-"
        THEN 0 - DecimalValue(Unsigned(s))
        ELSE DecimalValue(Unsigned(s))

\* mustBI, for the decimal strings the payloads below carry.
mustBI(s) == SetString(s)

\* common.HexToAddress: the 20 bytes, whatever the case of the hex digits.
HexToAddress(s) ==
    CASE s = "gateway_pay_to" -> "GATEWAY_PAY_TO"
      [] s = "0xpayer" -> "0xPAYER"
      [] OTHER -> s

\* time.Now().Unix() at the Verify call.
Now == 1000

\* The largest value and amount a payload names beyond the advertised one.
MaxExcess == 1

\* The decimal string of a number up to 99999.
DigitChar(d) ==
    CASE d = 0 -> "0" [] d = 1 -> "1" [] d = 2 -> "2" [] d = 3 -> "3"
      [] d = 4 -> "4" [] d = 5 -> "5" [] d = 6 -> "6" [] d = 7 -> "7"
      [] d = 8 -> "8" [] d = 9 -> "9"
RECURSIVE Decimal(_)
Decimal(n) ==
    IF n < 10 THEN <<DigitChar(n)>>
    ELSE Append(Decimal(n \div 10), DigitChar(n % 10))

\* The network identifiers a payload may name: the advertised one, another
\* chain, another namespace, and the malformed ones.
Networks ==
    {<<"e", "i", "p", "1", "5", "5", ":", "8", "4", "5", "3", "2">>,
     <<"e", "i", "p", "1", "5", "5", ":", "1">>,
     <<"s", "o", "l", "a", "n", "a", ":", "8", "4", "5", "3", "2">>,
     <<":", "8", "4", "5", "3", "2">>,
     <<"e", "i", "p", "1", "5", "5">>,
     <<"e", "i", "p", "1", "5", "5", ":", "8", "4", "5", "3", "2", ":", "1">>,
     <<"e", "i", "p", "1", "5", "5", ":", "0", "x", "1">>,
     <<"e", "i", "p", "1", "5", "5", ":">>,
     <<"e", "i", "p", "1", "5", "5", ":", "-", "1">>,
     <<>>}

\* The form eip155:<decimal>.
IsEip155(s) ==
    /\ Len(Split(s)) = 2
    /\ Split(s)[1] = <<"e", "i", "p", "1", "5", "5">>
    /\ Split(s)[2] # <<>>
    /\ \A i \in DOMAIN Split(s)[2] : Split(s)[2][i] \in Digits

\* Addresses: the advertised payTo (in two spellings), the payer, another.
PayToAddresses == {"GATEWAY_PAY_TO", "gateway_pay_to", "0xATTACKER"}
Amounts ==
    {0, 1} \cup ((MaxAmountRequired - 1)..(MaxAmountRequired + MaxExcess))

\* The fields eip712Digest hashes: the domain separator and the
\* authorization hash are collision-free, so a digest is named by them.
DigestOf(chainID, p) ==
    [name |-> p.accepted.extra.name, version |-> p.accepted.extra.version,
     chainId |-> chainID, contract |-> HexToAddress(p.accepted.asset),
     from |-> HexToAddress(p.payload.authorization.from),
     to |-> HexToAddress(p.payload.authorization.to),
     value |-> mustBI(p.payload.authorization.value),
     validAfter |-> mustBI(p.payload.authorization.validAfter),
     validBefore |-> mustBI(p.payload.authorization.validBefore),
     nonce |-> p.payload.authorization.nonce.bytes]

\* A Go run-time panic: the function does not return; the goroutine unwinds
\* to the recover of net/http, which logs it and drops the connection.
Panic == "panic: runtime error: slice bounds out of range"

\* eip712Digest: the error, the digest, and the hashing done. The nonce is
\* copied into nonce[32-len(nonceBytes):], a slice expression that panics
\* when the decoded nonce is longer than 32 bytes.
eip712Digest(p) ==
    LET parts == Split(p.accepted.network) IN
    IF Len(parts) # 2
        THEN [err |-> "invalid network", work |-> <<>>]
    ELSE IF ~SetStringOk(parts[2])
        THEN [err |-> "invalid chainId", work |-> <<>>]
    ELSE IF ~p.payload.authorization.nonce.hex
        THEN [err |-> "invalid nonce", work |-> <<>>]
    ELSE IF 32 - p.payload.authorization.nonce.bytes < 0
        THEN [err |-> Panic, work |-> <<>>]
    ELSE [err |-> "nil", digest |-> DigestOf(SetString(parts[2]), p),
          work |-> <<"Keccak256">>]

\* A signature string is hex or not and has a length in bytes; its (r, s)
\* is named by the key that made it, the digest it was made over and the
\* parity of its curve point; v is its last byte. A signer emits 65 bytes
\* with v = 27 + parity.
Signature(signer, digest) ==
    [hex |-> TRUE, len |-> 65, signer |-> signer, digest |-> digest,
     parity |-> 0, v |-> 27]
\* A signature string that is not hex.
BadSignature == [hex |-> FALSE, len |-> 0]

\* The last byte is handed to the recovery as it is.
RecoveryIdRaw(v) == v

\* Verify: if sig[64] >= 27 { sig[64] -= 27 }
RecoveryId(v) == IF v >= 27 THEN v - 27 ELSE v

\* crypto.Ecrecover with recovery id recid: an error ("" here) unless recid
\* is 0 or 1 (ids 2 and 3 need a curve point no signer can produce); the
\* signer's address for the digest signed and the parity of the signature;
\* an unrelated address otherwise.
Ecrecover(digest, sig, recid) ==
    IF recid \notin {0, 1} THEN ""
    ELSE IF sig.digest = digest /\ sig.parity = recid THEN sig.signer
    ELSE "0xUNRELATED"

\* LocalFacilitator.Verify(ctx, payloadBytes, requirements) at clock now:
\* the error, the payer, and the cryptographic work done. The requirements
\* argument is the blank identifier in the code.
Verify(payloadBytes, requirements, now) ==
    IF ~payloadBytes.json
        THEN [err |-> "parsing payment payload", payer |-> "", work |-> <<>>]
    ELSE LET p == payloadBytes.doc
             d == eip712Digest(p)
             recovered == Ecrecover(d.digest, p.payload.signature,
                                    RecoveryId(p.payload.signature.v))
         IN
    IF mustBI(p.payload.authorization.validBefore) < now
        THEN [err |-> "authorization expired", payer |-> "", work |-> <<>>]
    ELSE IF d.err # "nil"
        THEN [err |-> d.err, payer |-> "", work |-> d.work]
    ELSE IF ~p.payload.signature.hex \/ p.payload.signature.len # 65
        THEN [err |-> "invalid signature", payer |-> "", work |-> d.work]
    ELSE IF recovered = ""
        THEN [err |-> "ecrecover", payer |-> "", work |-> Append(d.work, "Ecrecover")]
    ELSE IF recovered # HexToAddress(p.payload.authorization.from)
        THEN [err |-> "signature mismatch", payer |-> "",
              work |-> Append(d.work, "Ecrecover")]
    ELSE IF HexToAddress(p.payload.authorization.to) # HexToAddress(p.accepted.payTo)
        THEN [err |-> "payTo mismatch", payer |-> "",
              work |-> Append(d.work, "Ecrecover")]
    ELSE IF mustBI(p.payload.authorization.value) < mustBI(p.accepted.amount)
        THEN [err |-> "amount too low", payer |-> "",
              work |-> Append(d.work, "Ecrecover")]
    ELSE [err |-> "nil", payer |-> recovered, work |-> Append(d.work, "Ecrecover")]

\* The payloads a client may post. The authorization is from 0xPAYER; the
\* signature is made by the payer or by another key, over the digest of
\* this payload or of the same payload paying the gateway, or is malformed.
AdvertisedChain == 84532

\* The chain a client signs for: the one its network names, when it names one.
SignedChain(net) ==
    IF Len(Split(net)) = 2 /\ SetStringOk(Split(net)[2])
        THEN SetString(Split(net)[2])
        ELSE AdvertisedChain

Unsigned712(net, payTo, amount, to, value, validBefore, nonce) ==
    [accepted |-> [network |-> net, asset |-> Requirement.Asset, payTo |-> payTo,
                   amount |-> Decimal(amount),
                   extra |-> [name |-> Requirement.Extra.Name,
                              version |-> Requirement.Extra.Version]],
     payload |-> [signature |-> BadSignature,
                  authorization |-> [from |-> "0xpayer", to |-> to,
                                     value |-> Decimal(value),
                                     validAfter |-> <<"0">>,
                                     validBefore |-> Decimal(validBefore),
                                     nonce |-> nonce]]]

SignedPayload(doc, signing) ==
    LET digest == DigestOf(SignedChain(doc.accepted.network), doc)
        paying == DigestOf(SignedChain(doc.accepted.network),
                           [doc EXCEPT !.payload.authorization.to = "GATEWAY_PAY_TO",
                                       !.payload.authorization.value =
                                            Decimal(MaxAmountRequired)])
        sig == CASE signing = "payer" -> Signature("0xPAYER", digest)
                 [] signing = "other key" -> Signature("0xMALLORY", digest)
                 [] signing = "other digest" -> Signature("0xPAYER", paying)
                 [] OTHER -> BadSignature
    IN  [doc EXCEPT !.payload.signature = sig]

\* payloadBytes: bytes that are no JSON document, or the JSON of a payload;
\* validBefore is past or not, the nonce is hex (of 7 or of 33 bytes) or not.
LocalPayloads(networks) ==
    {[json |-> FALSE]} \cup
    {[json |-> TRUE,
      doc |-> SignedPayload(Unsigned712(net, payTo, amount, to, value, vb, nonce), sg)] :
        net \in networks, payTo \in PayToAddresses, amount \in Amounts,
        to \in PayToAddresses, value \in Amounts, vb \in {Now - 1, Now, Now + 60},
        nonce \in {[hex |-> TRUE, bytes |-> 7], [hex |-> TRUE, bytes |-> 33],
                   [hex |-> FALSE, bytes |-> 0]},
        sg \in {"payer", "other key", "other digest", "malformed"}}

\* handlePayment: m.cfg.Facilitator.Verify(ctx, payloadBytes,
\* m.requirementsJSON), with the local facilitator, for a request that has
\* put its fingerprint into the replay set. When Verify returns an error the
\* fingerprint is deleted and the answer is 402; when it returns nil the
\* handler goes on to Settle; when it panics the handler is unwound with
\* the fingerprint left in the set and no response written.
LocalVerify ==
    /\ ~verified.called
    /\ LET res == Verify(verified.bytes, requirementsJSON, Now) IN
       verified' = [called |-> TRUE, bytes |-> verified.bytes, err |-> res.err,
                    payer |-> res.payer, work |-> res.work,
                    returned |-> res.err # Panic,
                    seen |-> res.err \in {"nil", Panic},
                    answer |-> CASE res.err = "nil" -> "settle"
                                 [] res.err = Panic -> "none"
                                 [] OTHER -> "402"]
    /\ UNCHANGED <<gateVars, startup, settlement, remote, proxied, clientVars>>

\* NewLocalFacilitator, and the payload bytes a client posts.
VerifyInit ==
    /\ GateIdle
    /\ verified \in {[called |-> FALSE, bytes |-> b] : b \in LocalPayloads(Networks)}
    /\ settlement = NoSettlement
    /\ startup = NoStartup
    /\ remote = NoRemote
    /\ proxied = NoProxy
    /\ ClientIdle

SpecVerify == VerifyInit /\ [][LocalVerify]_vars

\* ------------------------------------------ local facilitator: settlement
\* Settle: v := sig[64]; if v < 27 { v += 27 }
CalldataV(v) == IF v < 27 THEN v + 27 ELSE v

\* packTransferWithAuth: one 32-byte slot per argument.
packTransferWithAuth(from, to, value, validAfter, validBefore, nonce, v, rs) ==
    [from |-> from, to |-> to, value |-> value, validAfter |-> validAfter,
     validBefore |-> validBefore, nonce |-> nonce, v |-> v, rs |-> rs]

\* Settle up to its DialContext: the error of an early return, or the
\* calldata and the contract address the transaction will name.
SettlePrepare(payloadBytes) ==
    IF ~payloadBytes.json
        THEN [err |-> "parsing payment payload for settlement"]
    ELSE LET p == payloadBytes.doc
             d == eip712Digest(p)
             a == p.payload.authorization
             sig == p.payload.signature
         IN
    IF d.err # "nil" THEN [err |-> d.err]
    ELSE IF ~sig.hex \/ sig.len # 65
        THEN [err |-> "invalid signature for settlement"]
    ELSE [err |-> "nil",
          usdcAddr |-> HexToAddress(p.accepted.asset),
          callData |-> packTransferWithAuth(
                HexToAddress(a.from), HexToAddress(a.to), mustBI(a.value),
                mustBI(a.validAfter), mustBI(a.validBefore), a.nonce.bytes,
                CalldataV(sig.v), [signer |-> sig.signer, digest |-> sig.digest])]

\* The calls Settle makes on the node, in order, and the error each one
\* returns from Settle with when it fails; EstimateGas has none, its failure
\* leaves the fallback gas limit.
RpcCalls ==
    <<[call |-> "DialContext", err |-> "rpc connect"],
      [call |-> "PendingNonceAt", err |-> "pending nonce"],
      [call |-> "EstimateGas", err |-> "nil"],
      [call |-> "HeaderByNumber", err |-> "latest header"],
      [call |-> "SendTransaction", err |-> "transaction_failed"]>>

\* The deferred client.Close() is dropped.
ClientLeak(s) == s

\* defer client.Close(), run when Settle returns after a successful dial.
ClientClose(s) ==
    IF s.open THEN [s EXCEPT !.open = FALSE, !.calls = Append(@, "Close")]
    ELSE s

\* types.NewTx(&types.DynamicFeeTx{...}), signed with the gateway's key for
\* f.chainID, the chain of the configured NETWORK.
NewTx(s) ==
    [ChainID |-> AdvertisedChain, To |-> s.usdcAddr, Value |-> 0,
     Gas |-> s.gas, Data |-> s.callData]

\* handlePayment calls m.cfg.Facilitator.Settle after Verify returned nil;
\* Settle runs up to its first call on the node.
SettleBegin ==
    /\ verified.called /\ verified.err = "nil"
    /\ settlement.pc = "idle"
    /\ LET pre == SettlePrepare(verified.bytes) IN
       settlement' =
         IF pre.err # "nil"
         THEN [pc |-> "returned", err |-> pre.err, open |-> FALSE, dials |-> 0,
               sent |-> 0, accepted |-> FALSE, calls |-> <<>>]
         ELSE [pc |-> "rpc", err |-> "nil", open |-> FALSE, dials |-> 0,
               sent |-> 0, accepted |-> FALSE, calls |-> <<>>,
               usdcAddr |-> pre.usdcAddr, callData |-> pre.callData,
               gas |-> "fallback"]
    /\ UNCHANGED <<gateVars, startup, verified, remote, proxied, clientVars>>

\* The next call on the node returns, with an error or not, and Settle runs
\* on to its next call or to its return.
SettleRpc(ok) ==
    /\ settlement.pc = "rpc"
    /\ LET i == Len(settlement.calls) + 1
           c == RpcCalls[i]
           made == [settlement EXCEPT
                      !.calls = Append(@, c.call),
                      !.dials = IF c.call = "DialContext" THEN @ + 1 ELSE @,
                      !.open = IF c.call = "DialContext" THEN ok ELSE @,
                      !.gas = IF c.call = "EstimateGas" /\ ok
                                 THEN "estimate * 12 / 10" ELSE @]
           sentTx == [made EXCEPT !.sent = @ + 1, !.accepted = ok]
       IN
       settlement' =
         IF c.call = "SendTransaction"
         THEN ClientClose(
                [sentTx EXCEPT !.pc = "returned",
                               !.err = IF ok THEN "nil" ELSE c.err]
                  @@ [tx |-> NewTx(made)])
         ELSE IF ~ok /\ c.err # "nil"
         THEN ClientClose([made EXCEPT !.pc = "returned", !.err = c.err])
         ELSE made
    /\ UNCHANGED <<gateVars, startup, verified, remote, proxied, clientVars>>

\* handlePayment after Settle returned: 402 with the reason, or IssueToken
\* and the 200 that carries the token.
SettleAnswer ==
    /\ settlement.pc = "returned"
    /\ settlement' = [settlement EXCEPT !.pc = "answered"]
                       @@ [issued |-> settlement.err = "nil"]
    /\ UNCHANGED <<gateVars, startup, verified, remote, proxied, clientVars>>

\* The payloads of the settlement study pay the advertised address the
\* advertised amount, signed by the payer; they vary in network, in asset
\* contract, and in the shape of the signature string.
SettlePayloads ==
    {[json |-> TRUE,
      doc |-> LET u == [Unsigned712(net, Requirement.PayTo, MaxAmountRequired,
                                   Requirement.PayTo, MaxAmountRequired,
                                   Now + 60, [hex |-> TRUE, bytes |-> 7])
                         EXCEPT !.accepted.asset = asset]
                  sg == SignedPayload(u, "payer").payload.signature
              IN [u EXCEPT !.payload.signature =
                    [sg EXCEPT !.len = len, !.v = v, !.parity = parity]]] :
        net \in {<<"e", "i", "p", "1", "5", "5", ":", "8", "4", "5", "3", "2">>,
                 <<"e", "i", "p", "1", "5", "5", ":", "1">>},
        asset \in {Requirement.Asset, "0xOTHERTOKEN"},
        len \in {64, 65, 66}, v \in {0, 1, 2, 26, 27, 28, 29, 31, 255},
        parity \in {0, 1}}

SettleInit ==
    /\ GateIdle
    /\ verified \in {[called |-> FALSE, bytes |-> b] : b \in SettlePayloads}
    /\ settlement = NoSettlement
    /\ startup = NoStartup
    /\ remote = NoRemote
    /\ proxied = NoProxy
    /\ ClientIdle

SettleNext ==
    \/ LocalVerify
    \/ SettleBegin
    \/ \E ok \in BOOLEAN : SettleRpc(ok)
    \/ SettleAnswer

SpecSettle == SettleInit /\ [][SettleNext]_vars

\* ------------------------------------------------------ remote facilitator
\* RemoteFacilitator.buildBody: the version probe fails on bytes that are no
\* JSON object; a missing or zero x402Version defaults to 1.
buildBody(payloadBytes, requirementsBytes) ==
    IF ~payloadBytes.json THEN [err |-> "parsing payment payload"]
    ELSE [err |-> "nil",
          body |-> [x402Version |-> IF payloadBytes.x402Version = 0
                                       THEN 1 ELSE payloadBytes.x402Version,
                    paymentPayload |-> payloadBytes,
                    paymentRequirements |-> requirementsBytes]]

\* What f.client.Do and the reading of the body can come to: no response
\* (transport error, timeout, cancelled context, a body that breaks off), or
\* a status with a body that is JSON text or not. A JSON body has any of the
\* fields the two operations read, each with the JSON text of its value: the
\* literals true and false, or a string.
HttpOutcomes ==
    {[completed |-> FALSE, err |-> e] :
        e \in {"connection refused", "context canceled", "reading response"}}
    \cup
    {[completed |-> TRUE, status |-> st, body |-> b] :
        st \in {200, 204, 399, 400, 402, 500},
        b \in {[json |-> FALSE]} \cup
              {[json |-> TRUE, fields |-> f] :
                 f \in UNION {[names -> {"true", "false", "0xPAYER"}] :
                          names \in SUBSET {"isValid", "success", "payer"}}}}

\* post treats no status as a failure.
StatusNeverFails(status) == FALSE

\* post: if resp.StatusCode >= 400
StatusFails(status) == status >= 400

\* json.Unmarshal(respBody, dst) for the fields of dst: an error for text
\* that is no JSON and for a field of the wrong JSON type; a missing field
\* leaves the zero value.
Unmarshal(body, bools, strings) ==
    IF ~body.json THEN [err |-> "invalid character"]
    ELSE IF \E n \in DOMAIN body.fields :
              \/ n \in bools /\ body.fields[n] \notin {"true", "false"}
              \/ n \in strings /\ body.fields[n] \in {"true", "false"}
        THEN [err |-> "json: cannot unmarshal"]
    ELSE [err |-> "nil",
          dst |-> [n \in bools \cup strings |->
                     IF n \in bools
                     THEN n \in DOMAIN body.fields /\ body.fields[n] = "true"
                     ELSE IF n \in DOMAIN body.fields THEN body.fields[n]
                     ELSE ""]]

\* RemoteFacilitator.post, once the HTTP call came to outcome.
post(outcome, bools, strings) ==
    IF ~outcome.completed THEN [err |-> outcome.err]
    ELSE IF StatusFails(outcome.status) THEN [err |-> "facilitator returned"]
    ELSE Unmarshal(outcome.body, bools, strings)

\* RemoteFacilitator.Verify and Settle after their post: what they return.
RemoteReturn(op, outcome) ==
    IF op = "Verify"
    THEN LET r == post(outcome, {"isValid"}, {"payer"}) IN
         IF r.err # "nil" THEN [err |-> "facilitator verify", payer |-> ""]
         ELSE IF ~r.dst.isValid THEN [err |-> "payment invalid", payer |-> ""]
         ELSE [err |-> "nil", payer |-> r.dst.payer]
    ELSE LET r == post(outcome, {"success"}, {}) IN
         IF r.err # "nil" THEN [err |-> "facilitator settle", payer |-> ""]
         ELSE IF ~r.dst.success THEN [err |-> "settlement failed", payer |-> ""]
         ELSE [err |-> "nil", payer |-> ""]

\* Verify or Settle is called: the body is built and posted, or the call
\* returns the error of buildBody.
RemoteCall(op) ==
    /\ remote.pc = "idle"
    /\ LET b == buildBody(remote.bytes, requirementsJSON) IN
       remote' =
         IF b.err # "nil"
         THEN [pc |-> "returned", op |-> op, bytes |-> remote.bytes,
               posted |-> FALSE, err |-> b.err, payer |-> ""]
         ELSE [pc |-> "posted", op |-> op, bytes |-> remote.bytes,
               posted |-> TRUE, path |-> IF op = "Verify" THEN "/verify" ELSE "/settle",
               body |-> b.body]
    /\ UNCHANGED <<gateVars, startup, verified, settlement, proxied, clientVars>>

\* The HTTP call ends and the operation returns.
RemoteResponse(outcome) ==
    /\ remote.pc = "posted"
    /\ LET r == RemoteReturn(remote.op, outcome) IN
       remote' = [pc |-> "returned", op |-> remote.op, bytes |-> remote.bytes,
                  posted |-> TRUE, outcome |-> outcome,
                  err |-> r.err, payer |-> r.payer]
    /\ UNCHANGED <<gateVars, startup, verified, settlement, proxied, clientVars>>

\* NewFacilitator, and the payload bytes handed to the call: no JSON, or a
\* JSON object with or without an x402Version.
RemoteInit ==
    /\ GateIdle
    /\ verified = NoVerify
    /\ settlement = NoSettlement
    /\ startup = NoStartup
    /\ remote \in {[pc |-> "idle", bytes |-> b] :
                    b \in {[json |-> FALSE]} \cup
                          {[json |-> TRUE, x402Version |-> v] : v \in {0, 1, 2}}}
    /\ proxied = NoProxy
    /\ ClientIdle

RemoteNext ==
    \/ \E op \in {"Verify", "Settle"} : RemoteCall(op)
    \/ \E outcome \in HttpOutcomes : RemoteResponse(outcome)

SpecRemote == RemoteInit /\ [][RemoteNext]_vars

\* ------------------------------------------------------------------ startup
\* getEnvInt: the fallback for a variable that is unset (or no integer).
getEnvInt(v, fallback) == IF v.set THEN v.n ELSE fallback

\* Go's integer division truncates toward zero.
Quo(a, b) ==
    LET abs(x) == IF x < 0 THEN -x ELSE x
        q == abs(a) \div abs(b)
    IN  IF (a < 0) = (b < 0) THEN q ELSE -q

\* Load: if len(secret) < 32
SecretTooShort(secret) == secret.bytes < 32

\* config.Load: the error, or the Config. JWT_SECRET is read, and the
\* payment fields are checked, only inside if cfg.FacilitatorURL != "".
Load(env) ==
    LET cfg == [FacilitatorURL |-> env.FACILITATOR_URL,
                GatewayPrivateKey |-> env.GATEWAY_PRIVATE_KEY,
                GatewayPayTo |-> env.GATEWAY_PAY_TO,
                Network |-> env.NETWORK,
                PricePerRequest |-> getEnvInt(env.PRICE_PER_REQUEST, 100),
                MaxAmountRequired |->
                    getEnvInt(env.MAX_AMOUNT_REQUIRED, MaxAmountRequired),
                JWTSecret |-> [hex |-> TRUE, bytes |-> 0]]
    IN
    IF cfg.FacilitatorURL = "" THEN [err |-> "nil", cfg |-> cfg]
    ELSE IF env.JWT_SECRET = [hex |-> TRUE, bytes |-> 0]
        THEN [err |-> "JWT_SECRET env var is required"]
    ELSE IF ~env.JWT_SECRET.hex
        THEN [err |-> "JWT_SECRET must be valid hex"]
    ELSE IF SecretTooShort(env.JWT_SECRET)
        THEN [err |-> "JWT_SECRET must be at least 32 bytes"]
    ELSE IF cfg.GatewayPayTo = ""
        THEN [err |-> "GATEWAY_PAY_TO env var is required"]
    ELSE IF cfg.PricePerRequest <= 0
        THEN [err |-> "PRICE_PER_REQUEST must be positive"]
    ELSE IF cfg.MaxAmountRequired < cfg.PricePerRequest
        THEN [err |-> "MAX_AMOUNT_REQUIRED must be >= PRICE_PER_REQUEST"]
    ELSE [err |-> "nil", cfg |-> [cfg EXCEPT !.JWTSecret = env.JWT_SECRET]]

\* main: config.Load; a config error exits.
MainLoad ==
    /\ startup.pc = "env"
    /\ LET l == Load(startup.env) IN
       startup' = IF l.err # "nil"
                  THEN [pc |-> "exited", env |-> startup.env, err |-> l.err]
                  ELSE [pc |-> "loaded", env |-> startup.env, cfg |-> l.cfg]
    /\ UNCHANGED <<gateVars, verified, settlement, remote, proxied, clientVars>>

\* main after Load: the facilitator and the TokenManager of the payment
\* mode, NewMiddleware with cfg.RequestsPerPayment(), ListenAndServe. The
\* division of RequestsPerPayment panics for a zero price.
MainWire ==
    /\ startup.pc = "loaded"
    /\ LET cfg == startup.cfg
           mode == IF cfg.FacilitatorURL # "" THEN "remote"
                   ELSE IF cfg.GatewayPrivateKey # "" THEN "local"
                   ELSE "disabled"
           parts == Split(cfg.Network)
           chainIDStr == IF Len(parts) >= 1 /\ parts[1] = <<"e", "i", "p", "1", "5", "5">>
                            /\ Len(parts) = 2
                            THEN parts[2] ELSE cfg.Network
           built == [pc |-> "serving", env |-> startup.env, cfg |-> cfg,
                     mode |-> mode]
       IN
       startup' =
         IF mode = "local" /\ ~SetStringOk(chainIDStr)
            THEN [pc |-> "exited", env |-> startup.env,
                  err |-> "invalid NETWORK for local facilitator"]
         ELSE IF mode = "local" /\ cfg.GatewayPrivateKey = "not a key"
            THEN [pc |-> "exited", env |-> startup.env,
                  err |-> "local facilitator init failed"]
         ELSE IF cfg.PricePerRequest = 0
            THEN [pc |-> "panicked", env |-> startup.env,
                  err |-> "panic: runtime error: integer divide by zero"]
         ELSE IF mode = "disabled"
            THEN built @@ [RequestsPerPayment |->
                             Quo(cfg.MaxAmountRequired, cfg.PricePerRequest)]
         ELSE built @@ [secret |-> cfg.JWTSecret,
                        RequestsPerPayment |->
                            Quo(cfg.MaxAmountRequired, cfg.PricePerRequest)]
    /\ UNCHANGED <<gateVars, verified, settlement, remote, proxied, clientVars>>

\* The environments the process may be started in.
Environments ==
    [FACILITATOR_URL : {"", "https://x402.org/facilitator"},
     GATEWAY_PRIVATE_KEY : {"", "0xKEY", "not a key"},
     GATEWAY_PAY_TO : {"", "GATEWAY_PAY_TO"},
     NETWORK : {<<"e", "i", "p", "1", "5", "5", ":", "8", "4", "5", "3", "2">>,
                <<"s", "o", "l", "a", "n", "a", ":", "m", "a", "i", "n">>},
     PRICE_PER_REQUEST : {[set |-> FALSE]} \cup {[set |-> TRUE, n |-> k] : k \in -1 .. 2},
     MAX_AMOUNT_REQUIRED : {[set |-> FALSE]} \cup {[set |-> TRUE, n |-> k] : k \in 0 .. 2},
     JWT_SECRET : {[hex |-> TRUE, bytes |-> 0], [hex |-> FALSE, bytes |-> 0],
                   [hex |-> TRUE, bytes |-> 31], [hex |-> TRUE, bytes |-> 32]}]

StartupInit ==
    /\ GateIdle
    /\ startup \in {[pc |-> "env", env |-> e] : e \in Environments}
    /\ verified = NoVerify
    /\ settlement = NoSettlement
    /\ remote = NoRemote
    /\ proxied = NoProxy
    /\ ClientIdle

SpecStartup == StartupInit /\ [][MainLoad \/ MainWire]_vars

\* ----------------------------------------------------------- proxy adapter
\* A header set is a function from the (canonical) names present to values.

\* The headers the Director deletes.
ClientIdentifying ==
    {"X-Forwarded-For", "X-Forwarded-Host", "X-Forwarded-Proto", "X-Real-Ip",
     "Forwarded", "Via"}
PaymentHeaders == {"Authorization", "Payment-Signature", "X-Payment"}
\* The headers a request may carry.
InboundHeaderNames ==
    ClientIdentifying \cup PaymentHeaders \cup {"Content-Type", "Connection"}

\* req.RemoteAddr: the peer of a TCP connection, or an address without a
\* port (a listener that is not TCP).
RemoteAddrs == {[host |-> "203.0.113.7", port |-> "51000"], [unix |-> "@"]}

\* target.Host of the parsed UPSTREAM_RPC_URL.
UpstreamHost == "upstream:8545"

\* http.Header.Del and http.Header.Set
HeaderDel(h, names) == [n \in DOMAIN h \ names |-> h[n]]
HeaderSet(h, name, value) == [n \in DOMAIN h \cup {name} |-> IF n = name THEN value ELSE h[n]]

\* The Director of httputil.NewSingleHostReverseProxy(target): the URL is
\* rewritten to the target, and an absent User-Agent is set empty.
BaseDirector(r) ==
    [r EXCEPT !.url = UpstreamHost,
              !.header = IF "User-Agent" \in DOMAIN r.header
                             THEN r.header
                             ELSE HeaderSet(r.header, "User-Agent", "")]

\* rp.Director of NewRPC: base, the nine deletions, the Host.
Director(r) ==
    LET b == BaseDirector(r) IN
    [b EXCEPT !.header = HeaderDel(b.header, ClientIdentifying \cup PaymentHeaders),
              !.host = UpstreamHost]

\* httputil.ReverseProxy.ServeHTTP after the Director has run (the proxy has
\* no Rewrite function): the hop-by-hop headers are removed, and when
\* RemoteAddr splits into host and port the client IP is appended to the
\* X-Forwarded-For values present, or set as the header when the key is
\* absent from the map.
HopByHop == {"Connection", "Keep-Alive", "Proxy-Connection", "Te", "Trailer",
             "Transfer-Encoding", "Upgrade"}
ReverseProxyOutbound(r) ==
    LET d == Director(r)
        h == HeaderDel(d.header, HopByHop)
    IN  IF "host" \in DOMAIN r.remoteAddr
            THEN [d EXCEPT !.header =
                     HeaderSet(h, "X-Forwarded-For",
                               IF "X-Forwarded-For" \in DOMAIN h
                                   THEN h["X-Forwarded-For"] \o ", " \o r.remoteAddr.host
                                   ELSE r.remoteAddr.host)]
            ELSE [d EXCEPT !.header = h]

\* What the transport returns for the round trip.
TransportOutcomes ==
    {"nil", "dial tcp upstream:8545: connect: connection refused",
     "context deadline exceeded"}

\* rp.ErrorHandler
ErrorHandler(err) == HttpError(502, "upstream unavailable")

\* RPC.ServeHTTP: the request is rewritten and sent upstream.
ProxySend ==
    /\ proxied.stage = "inbound"
    /\ proxied' = [stage |-> "sent", req |-> proxied.req,
                   outreq |-> ReverseProxyOutbound(proxied.req)]
    /\ UNCHANGED <<gateVars, startup, verified, settlement, remote, clientVars>>

\* RPC.ServeHTTP: the round trip returns; the upstream response is copied to
\* the client, or the ErrorHandler answers.
ProxyReturn(err) ==
    /\ proxied.stage = "sent"
    /\ proxied' = [stage |-> "done", req |-> proxied.req, outreq |-> proxied.outreq,
                   err |-> err,
                   resp |-> IF err = "nil"
                                THEN [NoResp EXCEPT !.status = 200,
                                                    !.body = [jsonrpc |-> "2.0"]]
                                ELSE ErrorHandler(err)]
    /\ UNCHANGED <<gateVars, startup, verified, settlement, remote, clientVars>>

\* NewRPC(upstreamURL), and the request cfg.Next is handed.
ProxyInit ==
    /\ GateIdle
    /\ verified = NoVerify
    /\ settlement = NoSettlement
    /\ startup = NoStartup
    /\ remote = NoRemote
    /\ ClientIdle
    /\ proxied \in {[stage |-> "inbound",
                     req |-> [host |-> "gateway.example", url |-> "gateway.example",
                              remoteAddr |-> a,
                              header |-> [n \in names |-> "from client"]]] :
                        a \in RemoteAddrs, names \in SUBSET InboundHeaderNames}

ProxyNext ==
    \/ ProxySend
    \/ \E err \in TransportOutcomes : ProxyReturn(err)

SpecProxy == ProxyInit /\ [][ProxyNext]_vars

\* ------------------------------------------------------ client: serial queue
\* The client runs on one JavaScript thread: code between two awaits is one
\* step. A task is named by its place in the order of the enqueue calls.

MaxTasks == 3
Tasks == 1..MaxTasks
Gateways == {"https://gateway-a", "https://gateway-b"}

\* A drain is started for every enqueue.
NeverDraining(gatewayUrl) == FALSE

\* draining.has(gatewayUrl)
IsDraining(gatewayUrl) == gatewayUrl \in draining

\* queues.get(gatewayUrl)!.push(item), after the queue is created if absent.
Pushed(gatewayUrl, item) ==
    IF gatewayUrl \in DOMAIN queues
        THEN [queues EXCEPT ![gatewayUrl] = Append(@, item)]
        ELSE queues @@ (gatewayUrl :> <<item>>)

\* drainQueue from the test of its while loop to its next await or its end:
\* with the queue, the tasks and the suspended activations as they are at
\* the test. A non-empty queue is shifted and the item's task is called; an
\* empty one ends the loop and draining.delete runs.
DrainLoop(gatewayUrl, qs, ts, aw, dr) ==
    IF Len(qs[gatewayUrl]) > 0
        THEN LET item == Head(qs[gatewayUrl]) IN
             /\ queues' = [qs EXCEPT ![gatewayUrl] = Tail(@)]
             /\ tasks' = [ts EXCEPT ![item].state = "running"]
             /\ awaiting' = aw \cup {[url |-> gatewayUrl, item |-> item]}
             /\ startedOrder' = [startedOrder EXCEPT ![gatewayUrl] = Append(@, item)]
             /\ draining' = dr
        ELSE /\ queues' = qs
             /\ tasks' = ts
             /\ awaiting' = aw
             /\ startedOrder' = startedOrder
             /\ draining' = dr \ {gatewayUrl}

\* enqueue(gatewayUrl, task): the executor of the new Promise, with the
\* synchronous part of drainQueue when no drain is under way.
Enqueue(gatewayUrl) ==
    LET t == Len(tasks) + 1
        qs == Pushed(gatewayUrl, t)
        ts == Append(tasks, [url |-> gatewayUrl, state |-> "queued",
                             promise |-> "pending"])
    IN  /\ t <= MaxTasks
        /\ enqueuedOrder' = [enqueuedOrder EXCEPT ![gatewayUrl] = Append(@, t)]
        /\ IF ~IsDraining(gatewayUrl)
              THEN DrainLoop(gatewayUrl, qs, ts, awaiting, draining \cup {gatewayUrl})
              ELSE /\ queues' = qs
                   /\ tasks' = ts
                   /\ UNCHANGED <<awaiting, startedOrder, draining>>
        /\ UNCHANGED <<gateVars, startup, verified, settlement, remote, proxied>>

\* The promise item.task() returned settles: the task has run to its end.
TaskSettles(t, ok) ==
    /\ t \in DOMAIN tasks
    /\ tasks[t].state = "running"
    /\ tasks' = [tasks EXCEPT ![t].state = IF ok THEN "fulfilled" ELSE "rejected"]
    /\ UNCHANGED <<queues, draining, awaiting, enqueuedOrder, startedOrder>>
    /\ UNCHANGED <<gateVars, startup, verified, settlement, remote, proxied>>

\* drainQueue resumes after its await: item.resolve or item.reject, then the
\* loop again.
DrainResume(a) ==
    /\ a \in awaiting
    /\ tasks[a.item].state \in {"fulfilled", "rejected"}
    /\ DrainLoop(a.url, queues,
                 [tasks EXCEPT ![a.item].promise =
                      IF tasks[a.item].state = "fulfilled" THEN "resolved" ELSE "rejected"],
                 awaiting \ {a}, draining)
    /\ UNCHANGED enqueuedOrder
    /\ UNCHANGED <<gateVars, startup, verified, settlement, remote, proxied>>

\* The module is loaded: both Maps and the Set are empty.
QueueInit ==
    /\ GateIdle
    /\ verified = NoVerify
    /\ settlement = NoSettlement
    /\ startup = NoStartup
    /\ remote = NoRemote
    /\ proxied = NoProxy
    /\ queues = <<>>
    /\ draining = {}
    /\ awaiting = {}
    /\ tasks = <<>>
    /\ enqueuedOrder = [g \in Gateways |-> <<>>]
    /\ startedOrder = [g \in Gateways |-> <<>>]

QueueNext ==
    \/ \E g \in Gateways : Enqueue(g)
    \/ \E t \in Tasks, ok \in BOOLEAN : TaskSettles(t, ok)
    \/ \E a \in awaiting : DrainResume(a)

\* Every task terminates, and the event loop runs the continuations that
\* are ready.
QueueFairness ==
    /\ WF_vars(\E t \in Tasks, ok \in BOOLEAN : TaskSettles(t, ok))
    /\ WF_vars(\E a \in awaiting : DrainResume(a))

SpecQueue == QueueInit /\ [][QueueNext]_vars /\ QueueFairness

\* ------------------------------------------------ counter store: claims

\* The calls that have been made / have returned / have returned success.
Started == {p \in DOMAIN pc : pc[p] # "idle"}
Returned == {p \in DOMAIN pc : pc[p] = "use_ret"}
Succeeded(t) == {p \in Returned : claims[p].tid = t /\ ures[p].err = "nil"}
Exhausted(t) == {p \in Returned : claims[p].tid = t /\ ures[p].err = "ErrTokenExhausted"}

\* C1: no overdraw. For every registered TokenID the number of UseRequest
\* calls that returned success is at most the allowance it was registered
\* with, whatever arguments the calls carried.
C1_NoOverdraw ==
    \A t \in DOMAIN entries : Cardinality(Succeeded(t)) <= entries[t].total

\* C2: when M > N calls carrying the registered allowance N have all
\* returned, exactly N of them succeeded, their remaining values are
\* N-1, ..., 0 each once, and the other M-N returned ErrTokenExhausted.
C2_ExactlyNSucceed ==
    \A t \in DOMAIN entries :
        LET N == entries[t].total
            M == Cardinality({p \in Started : claims[p].tid = t})
        IN  (Started = Returned /\ M > N) =>
                /\ Cardinality(Succeeded(t)) = N
                /\ {ures[p].remaining : p \in Succeeded(t)} = 0..(N-1)
                /\ Cardinality(Exhausted(t)) = M - N

\* The spec's case N = 3, M = 4 has happened: four calls returned, one of them
\* exhausted.
C2_Witness ==
    /\ 1 \in DOMAIN entries
    /\ entries[1].total = 3
    /\ Cardinality(Returned) = 4
    /\ Cardinality(Exhausted(1)) = 1
    /\ Cardinality(Succeeded(1)) = 3

\* C3: in every state, also between the steps of running calls, each
\* entry's counter is within 0..allowance.
C3_UsedWithinAllowance ==
    \A t \in DOMAIN entries :
        /\ 0 <= entries[t].counter
        /\ entries[t].counter <= entries[t].total

\* -------------------------------------------------- middleware: claims

\* The handler has passed the replay check (step 2 of Path 2).
Proceeded(h) == pc[h] \in {"verify", "verify_failed", "settle", "issue"}

\* The handler holds the fingerprint it inserted: Verify has not failed.
Holding(h) == pc[h] \in {"verify", "settle", "issue"}

\* The payload bytes of the payment the handler is processing.
BytesOf(h) == req[h].pay.bytes

\* Handler h takes its replay-check step / a step that ends the exchange.
ReplayStep(h) == pc[h] = "replay" /\ pc'[h] # "replay"

\* The exchange just completed went through handlePayment for a payload.
PaidOut == out.req.pay.kind = "payload" /\ out.use = "none" /\ out.resp # PassedThrough
               /\ Supported(out.req)

\* The exchange just completed called the collaborator c.
Called(c) == \E i \in DOMAIN out.calls : out.calls[i] = c

\* Tokens issued for payload bytes b / for the signed authorization a.
TokensFor(b) == {t \in tokens : t.bytes = b}
TokensOfAuth(a) == {t \in tokens : AuthOf(t.bytes) = a}

\* C4 (as stated): of two requests with identical payload bytes that run
\* concurrently, at most one proceeds past the replay check to Verify.
C4_AtMostOneProceeds ==
    \A g \in DOMAIN req, h \in DOMAIN req :
        (g # h /\ Proceeded(g) /\ Proceeded(h)) => BytesOf(g) # BytesOf(h)

\* C4 (amended): of the requests with identical payload bytes at most one
\* at a time is between its replay check and the end of Verify-Settle-Issue
\* with Verify not failed; a request whose replay check comes while another
\* is there, or after a token was issued for the bytes, is answered 409;
\* and at most one of them is answered 200 with a token.
C4_ReplayCheckExclusive ==
    /\ [](\A g \in DOMAIN req, h \in DOMAIN req :
            (g # h /\ Holding(g) /\ Holding(h)) => BytesOf(g) # BytesOf(h))
    /\ [](\A b \in Payloads : Cardinality(TokensFor(b)) <= 1)
    /\ [][\A h \in DOMAIN req :
            (/\ ReplayStep(h)
             /\ \/ \E g \in DOMAIN req : g # h /\ Holding(g) /\ BytesOf(g) = BytesOf(h)
                \/ TokensFor(BytesOf(h)) # {})
            => /\ pc'[h] = "idle"
               /\ out'.resp = HttpError(409, "payment already processed")
               /\ out'.calls = calls[h]]_vars

\* Two requests with the same bytes ran concurrently, Verify, Settle and
\* Issue succeeded for the first, and the second has just been answered 409
\* while the first is still running.
C4_Witness ==
    /\ PaidOut
    /\ out.resp.status = 409
    /\ \E g \in DOMAIN req : pc[g] = "issue" /\ BytesOf(g) = out.req.pay.bytes

\* C5: a payload's fingerprint is in the replay set while Verify or Settle is
\* called for it; a fingerprint leaves the set only in the step in which
\* Verify returns an error to the handler that inserted it; once Settle has
\* been called for a payload its fingerprint is in the set for ever.
C5_FingerprintLifecycle ==
    /\ [](\A h \in DOMAIN req : Holding(h) => Fingerprint(BytesOf(h)) \in seenPayments)
    /\ [][\A fp \in seenPayments \ seenPayments' :
            \E h \in DOMAIN req :
                /\ pc[h] = "verify" /\ pc'[h] = "verify_failed"
                /\ Fingerprint(BytesOf(h)) = fp
                /\ calls'[h] = Append(calls[h], "Verify")]_vars
    /\ [](\A b \in DOMAIN settled :
            settled[b] # <<>> => Fingerprint(b) \in seenPayments)

\* Settle failed for one payload, whose fingerprint is still in the set, and
\* Verify has just failed for another, whose fingerprint is gone.
C5_Witness ==
    /\ \E b \in DOMAIN settled :
          /\ settled[b] # <<>> /\ settled[b][1] # "nil"
          /\ Fingerprint(b) \in seenPayments
    /\ PaidOut
    /\ out.resp = HttpError(402, "payment verification failed")
    /\ Fingerprint(out.req.pay.bytes) \notin seenPayments

\* C6: a payment request whose Verify succeeded and whose Settle returned an
\* error (a failed submission or a cancelled request context) is answered
\* 402, and every request that reaches the replay check with the same bytes
\* afterwards is answered 409.
C6_SettleErrorIsFinal ==
    [][/\ \A h \in DOMAIN req :
            (pc[h] = "settle" /\ pc'[h] # "issue" /\ pc'[h] # "settle")
            => /\ out'.resp.status = 402
               /\ out'.calls = Append(calls[h], "Settle")
               /\ Fingerprint(BytesOf(h)) \in seenPayments'
       /\ \A h \in DOMAIN req :
            (/\ ReplayStep(h)
             /\ \E i \in DOMAIN settled[BytesOf(h)] : settled[BytesOf(h)][i] # "nil")
            => /\ pc'[h] = "idle"
               /\ out'.resp.status = 409]_vars

\* Settle was cancelled for a payload, and a later request with the same
\* bytes has just been answered 409.
C6_Witness ==
    /\ PaidOut
    /\ out.resp.status = 409
    /\ settled[out.req.pay.bytes] = <<"context canceled">>
    /\ \A h \in DOMAIN req : pc[h] = "idle"

\* The exchange just completed reached Verify, after Verify had returned an
\* error for a payload with other bytes.
Resubmitted ==
    /\ PaidOut
    /\ Called("Verify")
    /\ \E b \in rejected : b # out.req.pay.bytes

\* C7 (as stated): a resubmission with different bytes after a Verify error
\* succeeds if and only if the resubmitted payload verifies.
C7_SucceedsIffVerifies ==
    Resubmitted => (out.resp.status = 200 <=> Called("Settle"))

\* C7 (amended): a request that ends in a Verify error is answered 402 and
\* its fingerprint is out of the set when Verify has returned; a fingerprint
\* is in the set only while its request is in Verify-Settle-Issue or after a
\* Settle attempt, and a request whose fingerprint is not in the set reaches
\* Verify; a request that reaches Verify is answered 200 with a token if
\* and only if it verifies and Settle and Issue succeed.
C7_VerifyErrorRecoverable ==
    /\ [][\A h \in DOMAIN req :
            /\ (pc[h] = "verify" /\ pc'[h] = "verify_failed")
               => Fingerprint(BytesOf(h)) \notin seenPayments'
            /\ (pc[h] = "verify_failed" /\ pc'[h] # "verify_failed")
               => out'.resp = HttpError(402, "payment verification failed")
            /\ (ReplayStep(h) /\ Fingerprint(BytesOf(h)) \notin seenPayments)
               => pc'[h] = "verify"]_vars
    /\ [](\A b \in Payloads :
            Fingerprint(b) \in seenPayments
            => \/ settled[b] # <<>>
               \/ \E h \in DOMAIN req : Holding(h) /\ BytesOf(h) = b)
    /\ []((PaidOut /\ Called("Verify"))
            => ((out.resp.status = 200 /\ out.resp.token # 0)
                <=> (/\ Called("Settle")
                     /\ settled[out.req.pay.bytes] = <<"nil">>
                     /\ \E t \in TokensFor(out.req.pay.bytes) :
                            t.tid = out.resp.token)))

\* Verify failed for one payload and a resubmission with other bytes has
\* just been answered 200 with a token.
C7_Witness ==
    /\ Resubmitted
    /\ out.resp.status = 200
    /\ out.req.pay.bytes \notin rejected

\* C8: for one signed transfer authorization at most one token is issued.
C8_OneTokenPerAuthorization ==
    \A a \in Auths : Cardinality(TokensOfAuth(a)) <= 1

\* The exchange just completed carried a Bearer token that validates.
TokenOut == Supported(out.req) /\ facilitator = "set" /\ ValidateToken(out.req.auth)

\* A handler takes a step while serving a request whose token validates and
\* whose TokenID has no entry.
NotFoundStep(h) ==
    \/ pc[h] = "idle" /\ pc'[h] = "use_lookup" /\ claims'[h].tid \notin DOMAIN entries
    \/ pc[h] = "use_lookup" /\ pc'[h] # "use_lookup" /\ claims[h].tid \notin DOMAIN entries
                             /\ out'.use # "other"

\* C9: a request whose Bearer token validates and whose TokenID has no entry
\* in the store is answered 402 with reason token_not_found, with or without
\* a Payment-Signature header; Verify and Settle are not called for it and
\* its steps leave the replay set as it is.
C9_TokenNotFoundIsolates ==
    /\ []((TokenOut /\ out.use = "ErrTokenNotFound")
            => /\ out.resp = Send402WithReason("token_not_found")
               /\ out.calls = <<"ValidateToken", "UseRequest">>)
    /\ []((TokenOut /\ out.req.auth.tid \notin DOMAIN entries)
            => out.use \in {"ErrTokenNotFound", "other"})
    /\ [][\A h \in DOMAIN req :
            NotFoundStep(h)
            => /\ seenPayments' = seenPayments
               /\ pc'[h] \in {"use_lookup", "idle"}
               /\ UNCHANGED <<settled, rejected, tokens, entries>>]_vars

\* A request with a stale token and a Payment-Signature payload has just
\* been answered 402 token_not_found.
C9_Witness ==
    /\ TokenOut
    /\ out.req.auth = StaleAuth
    /\ out.req.pay.kind = "payload"
    /\ out.resp.status = 402
    /\ out.resp.body.reason = "token_not_found"

\* C10: a request with a Bearer header is on the payment path only if
\* ValidateToken failed; when it passed and UseRequest returned
\* ErrTokenExhausted, ErrTokenNotFound or another error the answer is the
\* plain 402, the 402 with the reason, or the 500, and Verify, Settle and
\* IssueToken are not called.
C10_FallThroughExclusive ==
    /\ \A h \in DOMAIN req :
          (pc[h] \in PayLabels /\ HasBearer(req[h].auth)) => ~ValidateToken(req[h].auth)
    /\ (HasBearer(out.req.auth) /\ (Called("Verify") \/ out.resp.status = 409))
          => ~ValidateToken(out.req.auth)
    /\ TokenOut
          => /\ out.calls \in {<<"ValidateToken", "UseRequest">>,
                               <<"ValidateToken", "UseRequest", "ReadBody", "Next">>}
             /\ out.use = "ErrTokenExhausted" => out.resp = Send402
             /\ out.use = "ErrTokenNotFound"
                   => out.resp = Send402WithReason("token_not_found")
             /\ out.use = "other" => out.resp = HttpError(500, "internal error")
             /\ out.use = "nil" => out.resp.next
             /\ out.use # "none"

\* A request with an exhausted token and a Payment-Signature payload has
\* just been answered with the plain 402.
C10_Witness ==
    /\ TokenOut
    /\ out.use = "ErrTokenExhausted"
    /\ out.req.pay.kind = "payload"
    /\ out.resp = Send402

\* ------------------------------------------- middleware: paths and answers

\* The exchange just completed was a POST / to the gate.
GatedOut == out.req.method = "POST" /\ out.req.path = "/" /\ facilitator = "set"

\* The answers handlePayment gives once the payload is decoded.
PaymentAnswers ==
    {HttpError(409, "payment already processed"),
     HttpError(402, "payment verification failed"),
     HttpError(500, "internal error")}
    \cup {HttpError(402, "payment settlement failed: " \o e) : e \in SettleOutcomes \ {"nil"}}
    \cup {PaymentAccepted(t.tid) : t \in tokens}

\* What the exchange just completed got on Path 2 / Path 3, after the calls
\* in `before`: no UseRequest, and the answer its Payment-Signature decides.
AnsweredWithoutToken(before) ==
    /\ out.use = "none"
    /\ ~Called("UseRequest")
    /\ SubSeq(out.calls, 1, Len(before)) = before
    /\ out.req.pay.kind = "none"
          => out.resp = Send402 /\ out.calls = before
    /\ out.req.pay.kind = "malformed"
          => /\ out.resp = HttpError(400, "invalid Payment-Signature encoding")
             /\ out.calls = before
    /\ out.req.pay.kind = "payload"
          => /\ out.resp \in PaymentAnswers
             /\ out.resp.status # 409 => Called("Verify")

\* Handler h takes a step for a request whose Bearer token fails validation,
\* or such an exchange is completed in this step.
InvalidTokenStep ==
    \/ \E h \in DOMAIN req :
          /\ pc'[h] # pc[h]
          /\ req[h].auth.kind = "invalid" \/ req'[h].auth.kind = "invalid"
    \/ out = NoOut /\ out' # NoOut /\ out'.req.auth.kind = "invalid"

\* C11: a POST / whose Bearer token fails validation is answered as a request
\* without a token is: 402 without a Payment-Signature header, the payment
\* path with one; and its steps change the counter of no token.
C11_InvalidTokenFallsThrough ==
    /\ []((GatedOut /\ out.req.auth.kind = "invalid")
            => AnsweredWithoutToken(<<"ValidateToken">>))
    /\ []((GatedOut /\ out.req.auth.kind = "none") => AnsweredWithoutToken(<<>>))
    /\ [][InvalidTokenStep => \A t \in DOMAIN entries : entries'[t] = entries[t]]_vars

\* A request with an invalid Bearer token and a payment has just been
\* answered 200 with a token.
C11_Witness ==
    /\ GatedOut
    /\ out.req.auth = InvalidAuth
    /\ out.resp.status = 200
    /\ out.resp.token # 0

\* The advertisement a client reads: x402Version 2, one accepted scheme
\* "exact", and the requirements the facilitator is given.
IsAdvertisement(doc) ==
    /\ doc.x402Version = 2
    /\ doc.error = "Payment required"
    /\ Len(doc.accepts) = 1
    /\ doc.accepts[1].scheme = "exact"
    /\ doc.accepts[1] = requirementsJSON
    /\ doc.accepts[1].amount = "10000"

\* The exchange just completed was a POST / with neither header.
NoCredentialsOut ==
    GatedOut /\ out.req.auth.kind = "none" /\ out.req.pay.kind = "none"

\* C12: a POST / with neither a Bearer token nor a Payment-Signature header
\* is answered 402; the Payment-Required header decodes (base64) to the
\* advertisement, the JSON body is the advertisement, and the step changes
\* neither the store, the replay set nor the issued tokens.
C12_NoCredentials402 ==
    /\ [](NoCredentialsOut
            => /\ out.resp.status = 402
               /\ out.resp.payreq # NoHeader
               /\ IsAdvertisement(Base64Decode(out.resp.payreq))
               /\ out.resp.body = Base64Decode(out.resp.payreq)
               /\ out.resp.body = payloadJSON
               /\ out.calls = <<>>)
    /\ [][(out = NoOut /\ out' # NoOut /\ out'.req.auth.kind = "none"
              /\ out'.req.pay.kind = "none")
            => UNCHANGED <<entries, seenPayments, tokens, settled, rejected, pc>>]_vars

\* A POST / with neither header has just been answered 402, while a payment
\* is in flight and its fingerprint is in the replay set.
C12_Witness ==
    /\ NoCredentialsOut
    /\ out.resp.status = 402
    /\ seenPayments # {}

\* C13: every response with status 402 carries the Payment-Required header
\* with the advertised requirements.
C13_Every402HasPaymentRequired ==
    out.resp.status = 402 => out.resp.payreq = payload402

\* The exchange just completed asked for another method or another path.
UnsupportedOut == out # NoOut /\ (out.req.method # "POST" \/ out.req.path # "/")

ReRegistered(q) ==
    /\ pc[q] = "reg_ret"
    /\ claims[q].tid \in DOMAIN entries
    /\ claims[q].total # entries[claims[q].tid].total

\* The return of caller p's UseRequest is the one the stored allowance
\* gives for the value of `used` it obtained.
FromStoredAllowance(p) ==
    LET a == entries[claims[p].tid].total IN
    /\ ures[p].err = "nil" <=> used[p] <= a
    /\ ures[p].err = "nil" => ures[p].remaining = a - used[p]

\* C16: registering a TokenID again leaves its entry as it is (allowance and
\* counter), and no UseRequest made after a registration with allowance a'
\* returns a remaining value derived from a': it is the stored allowance
\* minus the credits used.
C16_IdempotentRegistration ==
    /\ \A t \in DOMAIN entries, a \in Totals : RegisterToken(t, a) = entries
    /\ \A q \in DOMAIN pc, p \in DOMAIN pc :
          (/\ ReRegistered(q)
           /\ p > q
           /\ pc[p] = "use_ret"
           /\ claims[p].tid = claims[q].tid)
          => FromStoredAllowance(p)

\* C17: for a registered TokenID every UseRequest returns what the stored
\* allowance gives, whatever allowance the caller claims: it succeeds exactly
\* when the credits used are within the stored allowance, and the remaining
\* value is the stored allowance minus the credits used.
C17_StoredAllowanceWins ==
    \A p \in DOMAIN pc :
        (pc[p] = "use_ret" /\ claims[p].tid \in DOMAIN entries)
        => FromStoredAllowance(p)

\* ---------------------------------------------- middleware: token path

\* The successful UseRequest calls made for TokenID t so far: the counter
\* less the increments that are about to be taken back.
Consumed(t) ==
    entries[t].counter
        - Cardinality({h \in DOMAIN req : pc[h] = "use_rollback" /\ claims[h].tid = t})

\* This step forwards a request upstream under a token with TokenID t.
ForwardsUnder(t) ==
    /\ out = NoOut
    /\ out'.resp.next
    /\ out'.use = "nil"
    /\ out'.req.auth.tid = t

\* C19: a request is forwarded on the token path in the step in which its
\* UseRequest succeeds, after ValidateToken and UseRequest and before
\* cfg.Next; X-Rpc-Credits-Remaining is the value UseRequest returned (the
\* allowance less the counter it reached); every forward under a token is
\* one successful UseRequest and conversely, so the requests forwarded under
\* a token never exceed its allowance.
C19_ForwardPerCredit ==
    /\ []((GatedOut /\ out.resp.next)
            => /\ out.use = "nil"
               /\ out.calls = <<"ValidateToken", "UseRequest", "ReadBody", "Next">>
               /\ out.resp.credits \in 0..(out.req.auth.total - 1))
    /\ [][\A h \in DOMAIN req :
            (pc[h] = "use_add" /\ pc'[h] = "idle")
            => /\ ForwardsUnder(claims[h].tid)
               /\ out'.req = req[h]
               /\ entries'[claims[h].tid].counter = entries[claims[h].tid].counter + 1
               /\ out'.resp.credits
                    = claims[h].total - entries'[claims[h].tid].counter]_vars
    /\ [][\A t \in DOMAIN entries :
            Consumed(t)' - Consumed(t) = IF ForwardsUnder(t) THEN 1 ELSE 0]_vars
    /\ [](\A t \in DOMAIN entries : Consumed(t) \in 0..entries[t].total)

\* The last credit of a token has just been used: the request is forwarded
\* with X-Rpc-Credits-Remaining 0 while another request with the same token
\* is about to increment the counter.
C19_Witness ==
    /\ GatedOut
    /\ out.resp.next
    /\ out.resp.credits = 0
    /\ \E h \in DOMAIN req : pc[h] = "use_add" /\ claims[h].tid = out.req.auth.tid

\* ------------------------------------------------- token manager: claims

\* The ValidateToken calls that returned claims.
Accepted == validated.called /\ validated.err = "nil"

\* C18: round trip. A token returned by IssueToken(payer, allowance)
\* validates, at every instant before its expiry, to claims whose subject is
\* the payer and whose requests_total is the allowance, under the TokenID
\* registered with that allowance; and when M UseRequest calls made with
\* those claims have all returned, min(M, allowance) of them succeeded, with
\* the remaining counts allowance-1 downwards, and all the others returned
\* ErrTokenExhausted.
C18_RoundTrip ==
    \A k \in tokens :
        LET c == k.str.claims
            N == k.allowance
            M == Cardinality({p \in Started : claims[p].tid = c.tid})
            S == IF M < N THEN M ELSE N
        IN  /\ \A now \in Times : now < c.exp => ParseWithClaims(k.str, now) = "nil"
            /\ (validated.called /\ validated.token = k.str /\ validated.at < c.exp)
                   => validated.err = "nil"
            /\ c.sub = k.payer
            /\ c.requests_total = N
            /\ c.tid \in DOMAIN entries /\ entries[c.tid].total = N
            /\ \A p \in Started : claims[p] = [tid |-> c.tid, total |-> N]
            /\ Started = Returned =>
                   /\ Cardinality(Succeeded(c.tid)) = S
                   /\ {ures[p].remaining : p \in Succeeded(c.tid)}
                          = (N - S)..(N - 1)
                   /\ Cardinality(Exhausted(c.tid)) = M - S

\* C18 witness: a token issued with allowance 2 was validated as issued, and
\* three calls made with its claims have returned: two succeeded and the
\* third returned ErrTokenExhausted.
C18_Witness ==
    \E k \in tokens :
        /\ k.allowance = 2
        /\ Accepted /\ validated.token = k.str
        /\ Cardinality(Returned) = 3
        /\ {ures[p].remaining : p \in Succeeded(k.str.claims.tid)} = {0, 1}
        /\ Cardinality(Exhausted(k.str.claims.tid)) = 1

\* C20: ValidateToken returns claims only for a token whose header names
\* HS256; a token under any other algorithm, the other HMAC methods with the
\* same key included, is rejected.
C20_OnlyHS256 ==
    Accepted => validated.token.header.alg = "HS256"

\* --------------------------------------------- middleware: payment answers

\* The exchange just completed went through handlePayment: a POST / with a
\* Payment-Signature header and no Bearer token that validates.
HandledPayment ==
    GatedOut /\ out.req.pay.kind # "none" /\ ~ValidateToken(out.req.auth)

\* A handler takes a step of handlePayment after the decoding.
PaymentPathStep == \E h \in DOMAIN req : pc[h] \in PayLabels /\ pc'[h] # pc[h]

\* C21: a request that went through handlePayment is never handed to
\* cfg.Next and carries no credits header, whatever its outcome; when
\* IssueToken was reached the answer is 200 or 500, and the 200 has
\* X-Payment-Token set to a token issued for this payload, registered with
\* RequestsPerPayment credits of which none is used, and the acknowledgment
\* body; no step of handlePayment changes the counter of an entry.
C21_PaymentAnswersWithToken ==
    /\ [](HandledPayment
            => /\ ~out.resp.next
               /\ ~Called("Next")
               /\ ~Called("UseRequest")
               /\ out.resp.credits = -1
               /\ Called("IssueToken") => out.resp.status \in {200, 500}
               /\ out.resp.status = 200
                     => /\ out.calls[Len(out.calls)] = "IssueToken"
                        /\ \E t \in TokensFor(out.req.pay.bytes) :
                              /\ out.resp = PaymentAccepted(t.tid)
                              /\ entries[t.tid] = [counter |-> 0,
                                                   total |-> RequestsPerPayment]
                        /\ out.resp.body.credits = RequestsPerPayment)
    /\ [][PaymentPathStep
            => /\ \A t \in DOMAIN entries : entries'[t] = entries[t]
               /\ \A t \in DOMAIN entries' \ DOMAIN entries : entries'[t].counter = 0]_vars

\* C21 witness: a payment sent with a Bearer token that fails validation
\* was answered 200 with a fresh token, while another handler waits at its
\* replay check.
C21_Witness ==
    /\ HandledPayment
    /\ out.req.auth.kind = "invalid"
    /\ out.resp.status = 200
    /\ entries[out.resp.token].counter = 0
    /\ \E h \in DOMAIN req : pc[h] = "replay"

\* The exchange just completed carried a Payment-Signature header that is
\* not base64 and went through handlePayment.
MalformedOut == HandledPayment /\ out.req.pay.kind = "malformed"

\* C22: a request whose Payment-Signature header is not valid base64 is
\* answered 400 by handlePayment; Verify, Settle and IssueToken are not
\* called for it, and the step that answers it leaves the replay set, the
\* store and the issued tokens as they are.
C22_MalformedBase64 ==
    /\ [](MalformedOut
            => /\ out.resp = HttpError(400, "invalid Payment-Signature encoding")
               /\ ~Called("Verify") /\ ~Called("Settle") /\ ~Called("IssueToken"))
    /\ [][(out = NoOut /\ MalformedOut')
            => UNCHANGED <<seenPayments, entries, tokens, rejected, settled>>]_vars

\* C22 witness: the 400 for a malformed header, sent after a Bearer token
\* that failed validation, while the replay set holds a fingerprint.
C22_Witness ==
    /\ MalformedOut
    /\ out.resp.status = 400
    /\ out.calls = <<"ValidateToken">>
    /\ seenPayments # {}

\* The collaborator the exchange just completed called last.
LastCall == IF out.calls = <<>> THEN "none" ELSE out.calls[Len(out.calls)]

\* C26: the answer to a payment that failed is fixed by the step that
\* failed and is the same whatever error the collaborator returned: after a
\* Verify error and after an IssueToken error the one message of that step,
\* and after a Settle error the same status and body for every error Settle
\* can return.
C26_OpaqueFailure ==
    (PaidOut /\ out.resp.status # 200) =>
        /\ LastCall = "Verify"
              => out.resp = HttpError(402, "payment verification failed")
        /\ LastCall = "IssueToken"
              => out.resp = HttpError(500, "internal error")
        /\ LastCall = "Settle"
              => \A e \in SettleOutcomes \ {"nil"} :
                    out.resp = HttpError(402, "payment settlement failed: " \o e)

\* ------------------------------------------------ local facilitator: claims

\* The Verify call returned a VerifyResult and no error.
VerifyOk == verified.called /\ verified.err = "nil"

\* C23: Verify returns without error only for an authorization whose `to`
\* is the payTo of the advertised requirement (the requirements bytes the
\* middleware passes), whatever the payload's accepted section says.
C23_ToIsAdvertisedPayTo ==
    VerifyOk =>
        HexToAddress(verified.bytes.doc.payload.authorization.to)
            = HexToAddress(requirementsJSON.payTo)

\* C24: Verify returns without error only for an authorization whose value
\* is at least the amount of the advertised requirement, whatever amount the
\* payload's accepted section states.
C24_ValueCoversAdvertisedAmount ==
    VerifyOk =>
        mustBI(verified.bytes.doc.payload.authorization.value) >= MaxAmountRequired

\* C25: Verify returns an error, with no hashing and no signature recovery
\* done, for every payload whose network is not of the form
\* eip155:<decimal>.
C25_OnlyEip155 ==
    (verified.called /\ verified.bytes.json
        /\ ~IsEip155(verified.bytes.doc.accepted.network))
      => verified.err # "nil" /\ verified.work = <<>>

\* ---------------------------------------------------- proxy adapter: claims

\* C27: the request sent upstream carries none of the client-identifying
\* headers and none of the authentication and payment headers, whatever the
\* inbound request contained; and a transport error is answered with the
\* generic 502.
C27_UpstreamSeesNoClientHeaders ==
    /\ proxied.stage \in {"sent", "done"}
          => DOMAIN proxied.outreq.header \cap (ClientIdentifying \cup PaymentHeaders) = {}
    /\ (proxied.stage = "done" /\ proxied.err # "nil")
          => proxied.resp = HttpError(502, "upstream unavailable")

\* ---------------------------------------------------- client queue: claims

\* The tasks of a gateway that have been called and have not yet run to
\* their end.
RunningAt(g) == {t \in DOMAIN tasks : tasks[t].url = g /\ tasks[t].state = "running"}

\* s is an initial part of t.
IsPrefix(s, t) == Len(s) <= Len(t) /\ SubSeq(t, 1, Len(s)) = s

\* C28: for each gateway URL at most one task is running and at most one
\* drain is suspended; the tasks of a gateway start in the order in which
\* they were enqueued; a promise is resolved only for a task that was
\* fulfilled and rejected only for one that failed; and every task that was
\* enqueued is eventually run and its promise settled, after failures of
\* earlier tasks too.
C28_SerialQueue ==
    /\ [](\A g \in Gateways :
            /\ Cardinality(RunningAt(g)) <= 1
            /\ Cardinality({a \in awaiting : a.url = g}) <= 1
            /\ IsPrefix(startedOrder[g], enqueuedOrder[g]))
    /\ [](\A t \in DOMAIN tasks :
            /\ tasks[t].promise = "resolved" => tasks[t].state = "fulfilled"
            /\ tasks[t].promise = "rejected" => tasks[t].state = "rejected")
    /\ \A t \in Tasks :
          (t \in DOMAIN tasks) ~> (t \in DOMAIN tasks /\ tasks[t].promise # "pending")

\* C28 witness: three tasks were enqueued for one gateway; the first failed
\* and its promise is rejected, the second is running, the third waits.
C28_Witness ==
    \E g \in Gateways :
        /\ enqueuedOrder[g] = <<1, 2, 3>>
        /\ tasks[1].promise = "rejected"
        /\ tasks[2].state = "running"
        /\ tasks[3].state = "queued"

\* ------------------------------------------- middleware: order of the calls

\* Settle returned nil for payload bytes b at least once.
SettledOk(b) == \E i \in DOMAIN settled[b] : settled[b][i] = "nil"

\* C29: a payment request calls Verify, Settle and IssueToken in this order
\* and each at most once: a handler is at Settle only after its Verify
\* returned a payer for its bytes, at IssueToken only after its Settle
\* returned nil for the same bytes; and a token is issued for the payer
\* Verify returned, with RequestsPerPayment credits.
C29_VerifySettleIssue ==
    /\ \A h \in DOMAIN req :
          /\ pc[h] \in {"replay", "verify"} => calls[h] = <<>>
          /\ pc[h] = "verify_failed" => calls[h] = <<"Verify">>
          /\ pc[h] = "settle"
                => /\ calls[h] = <<"Verify">>
                   /\ payer[h] = PayerOf(AuthOf(BytesOf(h)))
          /\ pc[h] = "issue"
                => /\ calls[h] = <<"Verify", "Settle">>
                   /\ payer[h] = PayerOf(AuthOf(BytesOf(h)))
                   /\ SettledOk(BytesOf(h))
    /\ PaidOut => IsPrefix(out.calls, <<"Verify", "Settle", "IssueToken">>)
    /\ \A t \in tokens :
          /\ t.sub = PayerOf(AuthOf(t.bytes))
          /\ t.total = RequestsPerPayment
          /\ entries[t.tid] = [counter |-> 0, total |-> RequestsPerPayment]
          /\ SettledOk(t.bytes)

\* C29 witness: a payment went through the three calls and was answered
\* with its token while the handler of another payload is at Settle.
C29_Witness ==
    /\ out.calls = <<"Verify", "Settle", "IssueToken">>
    /\ out.resp.status = 200
    /\ \E h \in DOMAIN req : pc[h] = "settle" /\ BytesOf(h) # out.req.pay.bytes

\* C30: when IssueToken returns an error the answer is 500 "internal error"
\* without X-Payment-Token, and the step issues no token and registers
\* nothing; a response carries X-Payment-Token only with status 200, and
\* every token a client was given has its TokenID registered in the store.
C30_TokenOnlyOnceRegistered ==
    /\ []((PaidOut /\ LastCall = "IssueToken" /\ out.resp.status # 200)
            => /\ out.resp = HttpError(500, "internal error")
               /\ out.resp.token = 0)
    /\ [](out.resp.token # 0
            => /\ out.resp.status = 200
               /\ out.resp.token \in DOMAIN entries
               /\ \E t \in tokens : t.tid = out.resp.token)
    /\ [](\A t \in tokens : t.tid \in DOMAIN entries)
    /\ [][(out = NoOut /\ out'.resp.status = 500)
            => UNCHANGED <<tokens, entries>>]_vars

\* C30 witness: IssueToken failed for one payment after a token had been
\* issued for another.
C30_Witness ==
    /\ PaidOut
    /\ LastCall = "IssueToken"
    /\ out.resp.status = 500
    /\ tokens # {}

\* ------------------------------------------ local facilitator: settlement claims
\* The signature string of the payload under study.
SigUnderStudy == verified.bytes.doc.payload.signature
\* Settle has built its calldata.
HasCalldata == settlement.pc # "idle" /\ "callData" \in DOMAIN settlement

\* C31: for a 65-byte signature with v in {27, 28} Verify recovers with
\* v - 27, so an otherwise good payload verifies exactly when v - 27 is the
\* parity of the signature, and the calldata of Settle carries v unchanged;
\* for v in {0, 1} the calldata carries v + 27; a signature of any other
\* length or any other v is rejected by Verify.
C31_ParityByte ==
    verified.called =>
      /\ (SigUnderStudy.len = 65 /\ SigUnderStudy.v \in {27, 28}) =>
            /\ verified.err = "nil" <=> SigUnderStudy.parity = SigUnderStudy.v - 27
            /\ HasCalldata => settlement.callData.v = SigUnderStudy.v
      /\ (SigUnderStudy.len = 65 /\ SigUnderStudy.v \in {0, 1}) =>
            /\ verified.err = "nil" <=> SigUnderStudy.parity = SigUnderStudy.v
            /\ HasCalldata => settlement.callData.v = SigUnderStudy.v + 27
      /\ (SigUnderStudy.len # 65 \/ SigUnderStudy.v \notin {0, 1, 27, 28}) =>
            verified.err # "nil"
      /\ HasCalldata => settlement.callData.v \in {27, 28}

\* A payload signed with v = 28 has verified and its calldata is built.
C31_Witness ==
    /\ verified.called /\ verified.err = "nil"
    /\ SigUnderStudy.v = 28
    /\ HasCalldata /\ settlement.callData.v = 28

\* The calls Settle may make on the node, in the order it makes them.
SettleCallOrder ==
    <<"DialContext", "PendingNonceAt", "EstimateGas", "HeaderByNumber",
      "SendTransaction", "Close">>
\* Settle has returned to handlePayment.
SettleReturned == settlement.pc \in {"returned", "answered"}

\* C32: a Settle call dials the node at most once, submits at most one
\* transaction, makes no call that waits for inclusion, returns nil exactly
\* when the node accepted the submission, and has closed the connection it
\* opened by the time it returns, whatever the path.
C32_OneConnectionOneSubmission ==
    settlement.pc # "idle" =>
      /\ settlement.dials <= 1
      /\ settlement.sent <= 1
      /\ \A i \in 1..Len(settlement.calls) :
            /\ settlement.calls[i] \in
                 {SettleCallOrder[j] : j \in 1..Len(SettleCallOrder)}
            /\ \A k \in 1..Len(settlement.calls) :
                 i # k => settlement.calls[i] # settlement.calls[k]
      /\ SettleReturned =>
            /\ ~settlement.open
            /\ settlement.err = "nil" <=> settlement.accepted
            /\ settlement.accepted => settlement.sent = 1
            /\ "DialContext" \in {settlement.calls[i] : i \in 1..Len(settlement.calls)}
                 /\ settlement.calls # <<"DialContext">>
                 => settlement.calls[Len(settlement.calls)] = "Close"

\* Settle returned an error after the node refused a later call, with the
\* connection closed.
C32_Witness ==
    /\ settlement.pc = "returned"
    /\ settlement.err = "latest header"
    /\ settlement.calls[Len(settlement.calls)] = "Close"
    /\ ~settlement.open

\* C36: the settlement transaction names the asset contract of the
\* advertised requirement on the facilitator's chain, and no token is issued
\* for a payload whose accepted.asset or network is not the advertised one.
C36_SettlesAdvertisedAsset ==
    /\ (settlement.pc # "idle" /\ "tx" \in DOMAIN settlement) =>
          /\ settlement.tx.To = HexToAddress(Requirement.Asset)
          /\ settlement.tx.ChainID = AdvertisedChain
    /\ (settlement.pc = "answered" /\ settlement.issued) =>
          /\ verified.bytes.doc.accepted.asset = Requirement.Asset
          /\ SignedChain(verified.bytes.doc.accepted.network) = AdvertisedChain

\* ------------------------------------------------- remote facilitator claims
\* The HTTP call of the operation under study completed with a status below
\* 400 and a body that decodes (JSON text, with a string for a payer that
\* Verify reads) whose flag is true.
RemoteGood(flag) ==
    /\ "outcome" \in DOMAIN remote
    /\ remote.outcome.completed
    /\ remote.outcome.status < 400
    /\ remote.outcome.body.json
    /\ flag \in DOMAIN remote.outcome.body.fields
    /\ remote.outcome.body.fields[flag] = "true"
    /\ (flag = "isValid" /\ "payer" \in DOMAIN remote.outcome.body.fields) =>
          remote.outcome.body.fields["payer"] \notin {"true", "false"}

\* C33: the remote Verify returns nil, with the payer the response reports,
\* exactly when the HTTP call completed with a status below 400 and a
\* decodable body whose isValid is true; the remote Settle returns nil
\* exactly when it completed with a status below 400 and a decodable body
\* whose success is true; every other outcome is an error.
C33_RemoteOutcomes ==
    remote.pc = "returned" =>
      /\ remote.op = "Verify" =>
            /\ remote.err = "nil" <=> RemoteGood("isValid")
            /\ remote.err = "nil" =>
                 remote.payer =
                   IF "payer" \in DOMAIN remote.outcome.body.fields
                      THEN remote.outcome.body.fields["payer"] ELSE ""
      /\ remote.op = "Settle" =>
            remote.err = "nil" <=> RemoteGood("success")

\* A Verify answered 200 with isValid true and a payer has returned nil, and
\* so that the error side is seen too the status is the highest below 400.
C33_Witness ==
    /\ remote.pc = "returned" /\ remote.op = "Verify"
    /\ remote.err = "nil" /\ remote.payer = "0xPAYER"
    /\ remote.outcome.status = 399

\* ------------------------------------------- middleware: once per fingerprint
\* C34: over any interleaving of payment requests Facilitator.Settle is
\* called at most once for the payload bytes of one fingerprint, and at most
\* one token is issued for them.
C34_SettleOncePerFingerprint ==
    \A b \in DOMAIN settled :
        /\ Len(settled[b]) <= 1
        /\ Cardinality(TokensFor(b)) <= 1
        /\ \A c \in DOMAIN settled :
              Fingerprint(b) = Fingerprint(c) => b = c

\* A payload was settled and paid for one token, and a later request with
\* the same bytes has just been answered 409.
C34_Witness ==
    /\ PaidOut
    /\ out.resp.status = 409
    /\ settled[out.req.pay.bytes] = <<"nil">>
    /\ Cardinality(TokensFor(out.req.pay.bytes)) = 1

\* ----------------------------------------- local facilitator: totality
\* C35: Local Verify returns, with a payer or an error, for every decoded
\* payload, and a request whose Verify does not succeed ends with its
\* fingerprint out of the replay set and a 402.
C35_VerifyTotal ==
    verified.called =>
      /\ verified.returned
      /\ verified.err # "nil" => (~verified.seen /\ verified.answer = "402")

\* ------------------------------------------------------------ startup claims
\* C37: whenever the process comes to serve with the payment gate enabled,
\* remote or local, its TokenManager holds a secret of at least 32 bytes and
\* the allowance per payment is at least 1.
C37_GateHasSecretAndAllowance ==
    (startup.pc = "serving" /\ "mode" \in DOMAIN startup
        /\ startup.mode \in {"remote", "local"})
      => /\ startup.secret.bytes >= 32
         /\ startup.RequestsPerPayment >= 1

\* ------------------------------------------- counter store: no false exhaustion
\* The calls for TokenID t that are past an Add(1) that overshot: about to
\* run the compensating Add(-1), or returned ErrTokenExhausted.
Overshot(t) ==
    {p \in DOMAIN pc : claims[p].tid = t /\ pc[p] = "use_rollback"} \cup Exhausted(t)

\* C38: when every call carries the registered allowance N, a call is
\* refused (its Add(1) overshot, and it returns ErrTokenExhausted) only when
\* N calls for the TokenID have taken their credit; the counter raised by
\* callers that are about to compensate never refuses a call while credits
\* remain.
C38_NoFalseExhaustion ==
    \A t \in DOMAIN entries :
        Overshot(t) # {} => Cardinality(Succeeded(t)) = entries[t].total

\* Two callers overshoot an allowance of 2 at once: the counter stands at 4
\* while both credits are taken and neither caller has compensated yet.
C38_Witness ==
    /\ 1 \in DOMAIN entries
    /\ entries[1].total = 2
    /\ entries[1].counter = 4
    /\ Cardinality(Succeeded(1)) = 2
    /\ Cardinality({p \in DOMAIN pc : pc[p] = "use_rollback"}) = 2

\* ------------------------------------------- middleware: the token path frame
\* Handler h is serving a request to the gate whose Bearer token validates.
OnTokenPath(h) ==
    /\ pc[h] # "idle"
    /\ facilitator = "set"
    /\ Supported(req[h])
    /\ ValidateToken(req[h].auth)

\* C39: a request whose Bearer token validates is handled by the token path
\* alone, whatever Payment-Signature it carries: its handler is only ever in
\* the steps of UseRequest, has called ValidateToken and UseRequest and
\* nothing of the payment path, and no step it takes, the forwarding one
\* included, changes the replay set, the settlements or the tokens issued.
C39_TokenPathFrame ==
    /\ [](\A h \in DOMAIN req :
            OnTokenPath(h)
            => /\ pc[h] \in {"use_lookup", "use_add", "use_rollback"}
               /\ calls[h] = <<"ValidateToken", "UseRequest">>)
    /\ [](TokenOut
            => /\ ~Called("Verify") /\ ~Called("Settle") /\ ~Called("IssueToken")
               /\ out.resp.status # 409)
    /\ [][\A h \in DOMAIN req :
            ((OnTokenPath(h) \/ OnTokenPath(h)') /\ pc'[h] # pc[h])
            => /\ seenPayments' = seenPayments
               /\ UNCHANGED <<settled, rejected, tokens>>]_vars

\* A request with a valid token and a Payment-Signature payload that was
\* never submitted has just been forwarded, and the replay set is empty.
C39_Witness ==
    /\ TokenOut
    /\ out.req.pay.kind = "payload"
    /\ out.use = "nil"
    /\ out.resp.next
    /\ Fingerprint(out.req.pay.bytes) \notin seenPayments

\* ------------------------------------------------- middleware: termination
\* The terminal outcomes of a request: 400, 402, 409, 500, the 200 that
\* carries a token, or the hand-off to the upstream handler.
Terminal(o) ==
    /\ o # NoOut
    /\ \/ o.resp.next /\ o.resp.token = 0
       \/ ~o.resp.next /\ o.resp.status \in {400, 402, 409, 500}
       \/ ~o.resp.next /\ o.resp.status = 200 /\ o.resp.token # 0

\* C40: provided Verify, Settle, the store and the body read return, every
\* request a handler serves comes to an end under any interleaving (the
\* handler is idle again and again, so never busy for ever), and it ends
\* with one terminal outcome: a handler leaves a request only in a step
\* that writes one outcome, and writes an outcome only when it leaves.
C40_EveryRequestEnds ==
    /\ \A h \in GateHandlers : []<>(pc[h] = "idle")
    /\ [][/\ \A h \in DOMAIN req :
               (pc[h] # "idle" /\ pc'[h] = "idle")
                 => (out = NoOut /\ Terminal(out'))
          /\ (out' # out /\ out' # NoOut)
                 => /\ Terminal(out')
                    /\ Cardinality({h \in DOMAIN req : pc'[h] # pc[h]}) <= 1]_vars

\* Both handlers are serving requests at once, one at the counter store and
\* one waiting for Settle.
C40_Witness ==
    /\ \E h \in DOMAIN req : pc[h] = "use_lookup"
    /\ \E h \in DOMAIN req : pc[h] = "settle"

====
